---- MODULE Spec2Model ----
(***************************************************************************)
(* rustanel: a 16-bit educational virtual machine with a two-pass          *)
(* assembler (src/src/compiler.rs), an instruction-set table               *)
(* (src/src/instruction_set.rs), a step-wise executor                      *)
(* (src/src/executor.rs), the numeric parser wrapping_parse                *)
(* (src/src/highlighting.rs) and the egui front-end that drives them       *)
(* (src/src/main.rs).                                                      *)
(*                                                                         *)
(* Text is a sequence of one-character strings.  A Rust panic (index out   *)
(* of bounds, failed assert, division by zero) aborts the process: the     *)
(* variable panic records it and no action is enabled afterwards.          *)
(***************************************************************************)
EXTENDS Integers, Sequences, FiniteSets, TLC

VARIABLES
    code,              \* App.code: the text in the editor
    compiler,          \* App.compiler: the fields of struct Compiler
    program_executor,  \* App.program_executor: the fields of struct ProgramExecutor
    error_popup_info,  \* App.error_popup_info
    pending,           \* iterations left in the loop of App::execute_instructions
    ticks,             \* step() calls made since the last reset (history, capped)
    panic,             \* "none", or the message of the panic that aborted the process
    frame,             \* position in App::update: "update" (its start), "buttons"
    cc,                \* locals and position of a running Compiler::compile_code
    input,             \* argument of the pure function under study
    output             \* its result, "pending" before the call

vars == <<code, compiler, program_executor, error_popup_info, pending, ticks,
          panic, frame, cc, input, output>>

(***************************************************************************)
(* Machine words                                                           *)
(***************************************************************************)
U8 == 2^8
U16 == 2^16

RECURSIVE BitAnd(_, _, _)
\* a & b on the low n bits
BitAnd(a, b, n) ==
    IF n = 0 THEN 0
    ELSE ((a % 2) * (b % 2)) + 2 * BitAnd(a \div 2, b \div 2, n - 1)

RECURSIVE BitOr(_, _, _)
\* a | b on the low n bits
BitOr(a, b, n) ==
    IF n = 0 THEN 0
    ELSE (IF (a % 2) + (b % 2) > 0 THEN 1 ELSE 0) + 2 * BitOr(a \div 2, b \div 2, n - 1)

RECURSIVE BitXor(_, _, _)
\* a ^ b on the low n bits
BitXor(a, b, n) ==
    IF n = 0 THEN 0
    ELSE (((a % 2) + (b % 2)) % 2) + 2 * BitXor(a \div 2, b \div 2, n - 1)

\* !a for a u16
BitNot16(a) == (U16 - 1) - a

\* u16::saturating_add in the place of u16::wrapping_add
saturating_add(a, b) == IF a + b >= U16 THEN U16 - 1 ELSE a + b

\* u16::wrapping_add
wrapping_add(a, b) == (a + b) % U16

\* u16::wrapping_sub
wrapping_sub(a, b) == (a - b + U16) % U16

\* u16::wrapping_mul; the product is split so that no intermediate value
\* leaves the 32-bit range of the model checker's integers
wrapping_mul(a, b) ==
    (a * (b % U8) + ((a * (b \div U8)) % U8) * U8) % U16

\* u16::from_be_bytes
from_be_bytes(hi, lo) == hi * U8 + lo

(***************************************************************************)
(* A [u8; MAX_PROGRAM_SIZE] array is kept as the function from the         *)
(* addresses of its non-zero bytes to those bytes: every address of        *)
(* 0..MAX_PROGRAM_SIZE-1 outside the domain holds 0.  Two arrays are equal *)
(* exactly when their representations are.                                 *)
(***************************************************************************)
\* [0; MAX_PROGRAM_SIZE]
ZeroBytes == [a \in {} |-> 0]

\* array[a], a within the bounds
ByteAt(array, a) == IF a \in DOMAIN array THEN array[a] ELSE 0

\* array[a] = v, a within the bounds
SetByte(array, a, v) ==
    IF v = 0 THEN [k \in (DOMAIN array) \ {a} |-> array[k]]
    ELSE [k \in (DOMAIN array) \cup {a} |-> IF k = a THEN v ELSE array[k]]

(***************************************************************************)
(* instruction_set.rs                                                      *)
(***************************************************************************)
MAX_PROGRAM_SIZE == 4096
NUMBER_OPERAND_CODE == 15
REG_MASK == 1
ADDR_MASK == 2
ADDR_INC_MASK == 4
PORT_MASK == 8
NUMBER_MASK == 16

\* (mask & bit) != 0, bit a power of two
Accepts(mask, bit) == (mask \div bit) % 2 = 1

Reg(r) == [kind |-> "Reg", val |-> r]
Addr(r) == [kind |-> "Addr", val |-> r]
AddrInc(r) == [kind |-> "AddrInc", val |-> r]
Port(p) == [kind |-> "Port", val |-> p]
Number(n) == [kind |-> "Number", val |-> n]

RegAddrInc == REG_MASK + ADDR_MASK + ADDR_INC_MASK
RegAddrIncNum == REG_MASK + ADDR_MASK + ADDR_INC_MASK + NUMBER_MASK

\* The table; entry i + 1 is opcode i.  accepted_operands is the pair
\* AcceptedOperandTypes(a, b); the executor thunk is InstructionExecutor below.
INSTRUCTION_SET == <<
    [name |-> <<"n","o","p">>,     accepted_operands |-> <<0, 0>>],
    [name |-> <<"m","o","v">>,     accepted_operands |-> <<RegAddrInc, RegAddrIncNum>>],
    [name |-> <<"a","d","d">>,     accepted_operands |-> <<RegAddrInc, RegAddrIncNum>>],
    [name |-> <<"s","u","b">>,     accepted_operands |-> <<RegAddrInc, RegAddrIncNum>>],
    [name |-> <<"m","u","l">>,     accepted_operands |-> <<RegAddrInc, RegAddrIncNum>>],
    [name |-> <<"d","i","v">>,     accepted_operands |-> <<RegAddrInc, RegAddrIncNum>>],
    [name |-> <<"a","n","d">>,     accepted_operands |-> <<RegAddrInc, RegAddrIncNum>>],
    [name |-> <<"o","r">>,         accepted_operands |-> <<RegAddrInc, RegAddrIncNum>>],
    [name |-> <<"x","o","r">>,     accepted_operands |-> <<RegAddrInc, RegAddrIncNum>>],
    [name |-> <<"n","o","t">>,     accepted_operands |-> <<RegAddrInc, 0>>],
    [name |-> <<"j","m","p">>,     accepted_operands |-> <<RegAddrIncNum, 0>>],
    [name |-> <<"w","r","t">>,     accepted_operands |-> <<PORT_MASK, RegAddrIncNum>>],
    [name |-> <<"r","e","a","d">>, accepted_operands |-> <<RegAddrInc, PORT_MASK>>],
    [name |-> <<"s","t","o","p">>, accepted_operands |-> <<0, 0>>] >>

\* AcceptedOperandTypes::count
AcceptedCount(accepted) ==
    IF accepted[1] = 0 THEN 0 ELSE IF accepted[2] = 0 THEN 1 ELSE 2

\* a size that does not count the immediate
OperandsSizeShort(operands) == 2

\* InstructionOperands::zero / one / two: the size that goes to add_to_pc.
\* operands is <<>>, <<a>> or <<a, b>>.
OperandsSize(operands) ==
    IF \E i \in 1..Len(operands) : operands[i].kind = "Number" THEN 4 ELSE 2

(***************************************************************************)
(* executor.rs.  Every operation that can fail or change the executor      *)
(* returns [ex, tag, val]: ex the executor after it, tag "Ok", "Err" or    *)
(* "Panic", val the value, the RuntimeError or the panic message.          *)
(***************************************************************************)
Ok(ex, v) == [ex |-> ex, tag |-> "Ok", val |-> v]
Err(ex, e) == [ex |-> ex, tag |-> "Err", val |-> e]
Panic(ex, msg) == [ex |-> ex, tag |-> "Panic", val |-> msg]

InvalidInstruction(line, instruction) ==
    [kind |-> "InvalidInstruction", line |-> line, arg |-> instruction]
InvalidOperand(line, operand) ==
    [kind |-> "InvalidOperand", line |-> line, arg |-> operand]
InvalidAddress(line, address) ==
    [kind |-> "InvalidAddress", line |-> line, arg |-> address]

\* impl Default for ProgramExecutor
DefaultExecutor ==
    [registers |-> [r \in 0..4 |-> IF r = 4 THEN MAX_PROGRAM_SIZE - 1 ELSE 0],
     program_state_reg |-> 0,
     memory |-> ZeroBytes,
     display |-> [p \in 0..15 |-> 0],
     has_finished |-> TRUE,
     is_in_debug_mode |-> FALSE,
     curr_addr |-> 0]

\* self.registers[reg as usize], read and assigned
RegGet(ex, r) == ex.registers[r]
RegSet(ex, r, v) == [ex EXCEPT !.registers[r] = v]

\* prepare_for_a_new_run that clears r0..r3 as well
prepare_for_a_new_run_clearing(ex) ==
    [ex EXCEPT !.curr_addr = 0,
               !.registers = [r \in 0..4 |-> IF r = 4 THEN MAX_PROGRAM_SIZE - 1 ELSE 0],
               !.has_finished = FALSE]

prepare_for_a_new_run(ex) ==
    [ex EXCEPT !.curr_addr = 0,
               !.registers[4] = MAX_PROGRAM_SIZE - 1,
               !.has_finished = FALSE]

read_u8(ex, addr) ==
    IF addr < MAX_PROGRAM_SIZE
    THEN Ok(ex, ByteAt(ex.memory, addr))
    ELSE Err(ex, InvalidAddress(ex.curr_addr, addr))

write_u8(ex, addr, new_val) ==
    IF addr < MAX_PROGRAM_SIZE
    THEN Ok([ex EXCEPT !.memory = SetByte(@, addr, new_val)], 0)
    ELSE Err(ex, InvalidAddress(ex.curr_addr, addr))

\* The `?` operator: the failure (error or panic) of r is returned, and the
\* rest of the function, Rest, goes on from a success
Try(r, Rest(_)) == IF r.tag # "Ok" THEN r ELSE Rest(r)

\* `let v = ...;` followed by the rest of the function
With(v, Rest(_)) == Rest(v)

read_u16(ex, addr) ==
    Try(read_u8(ex, addr), LAMBDA hi :
    Try(read_u8(ex, wrapping_add(addr, 1)), LAMBDA lo :
    Ok(ex, from_be_bytes(hi.val, lo.val))))

write_u16(ex, addr, new_val) ==
    Try(write_u8(ex, addr, new_val \div U8), LAMBDA first :
    write_u8(first.ex, wrapping_add(addr, 1), new_val % U8))

\* get_instruction_operand that takes the nibbles 10..15 for AddrInc
get_instruction_operand_wide(ex, accepted_operand_types, operand) ==
    IF Accepts(accepted_operand_types, PORT_MASK)
    THEN Ok(ex, Port(operand))
    ELSE IF Accepts(accepted_operand_types, NUMBER_MASK) /\ operand = NUMBER_OPERAND_CODE
    THEN Ok(ex, Number(from_be_bytes(ByteAt(ex.memory, ex.curr_addr + 2),
                                     ByteAt(ex.memory, ex.curr_addr + 3))))
    ELSE IF Accepts(accepted_operand_types, ADDR_INC_MASK) /\ operand \in 10..15
    THEN Ok(ex, AddrInc(operand - 10))
    ELSE IF Accepts(accepted_operand_types, ADDR_MASK) /\ operand \in 5..9
    THEN Ok(ex, Addr(operand - 5))
    ELSE IF Accepts(accepted_operand_types, REG_MASK) /\ operand \in 0..4
    THEN Ok(ex, Reg(operand))
    ELSE Err(ex, InvalidOperand(ex.curr_addr, operand))

\* get_instruction_operand that takes the nibble NUMBER_OPERAND_CODE for an
\* immediate before it looks at the accepted types
get_instruction_operand_number_first(ex, accepted_operand_types, operand) ==
    IF operand = NUMBER_OPERAND_CODE
    THEN Ok(ex, Number(from_be_bytes(ByteAt(ex.memory, ex.curr_addr + 2),
                                     ByteAt(ex.memory, ex.curr_addr + 3))))
    ELSE IF Accepts(accepted_operand_types, PORT_MASK)
    THEN Ok(ex, Port(operand))
    ELSE IF Accepts(accepted_operand_types, ADDR_INC_MASK) /\ operand \in 10..14
    THEN Ok(ex, AddrInc(operand - 10))
    ELSE IF Accepts(accepted_operand_types, ADDR_MASK) /\ operand \in 5..9
    THEN Ok(ex, Addr(operand - 5))
    ELSE IF Accepts(accepted_operand_types, REG_MASK) /\ operand \in 0..4
    THEN Ok(ex, Reg(operand))
    ELSE Err(ex, InvalidOperand(ex.curr_addr, operand))

get_instruction_operand(ex, accepted_operand_types, operand) ==
    IF Accepts(accepted_operand_types, PORT_MASK)
    THEN Ok(ex, Port(operand))
    ELSE IF Accepts(accepted_operand_types, NUMBER_MASK) /\ operand = NUMBER_OPERAND_CODE
    THEN IF ex.curr_addr + 3 >= MAX_PROGRAM_SIZE
         THEN Panic(ex, "index out of bounds")
         ELSE Ok(ex, Number(from_be_bytes(ByteAt(ex.memory, ex.curr_addr + 2),
                                          ByteAt(ex.memory, ex.curr_addr + 3))))
    ELSE IF Accepts(accepted_operand_types, ADDR_INC_MASK) /\ operand \in 10..14
    THEN Ok(ex, AddrInc(operand - 10))
    ELSE IF Accepts(accepted_operand_types, ADDR_MASK) /\ operand \in 5..9
    THEN Ok(ex, Addr(operand - 5))
    ELSE IF Accepts(accepted_operand_types, REG_MASK) /\ operand \in 0..4
    THEN Ok(ex, Reg(operand))
    ELSE Err(ex, InvalidOperand(ex.curr_addr, operand))

\* the value is <<>> for Zero, <<a>> for One(a), <<a, b>> for Two(a, b)
get_instruction_operands(ex, accepted_operand_types) ==
    LET operands_byte == ByteAt(ex.memory, ex.curr_addr + 1)
        operand1 == (operands_byte \div 16) % 16
        operand2 == operands_byte % 16
    IN  IF ex.curr_addr + 1 >= MAX_PROGRAM_SIZE
        THEN Panic(ex, "index out of bounds")
        ELSE IF accepted_operand_types[1] = 0 THEN Ok(ex, <<>>)
        ELSE
        Try(get_instruction_operand(ex, accepted_operand_types[1], operand1),
            LAMBDA first :
        IF accepted_operand_types[2] = 0 THEN Ok(ex, <<first.val>>)
        ELSE
        Try(get_instruction_operand(ex, accepted_operand_types[2], operand2),
            LAMBDA second :
        Ok(ex, <<first.val, second.val>>)))

\* read_from whose AddrInc arm adds 2 to the register before it reads
read_from_pre_increment(ex, place_to_read_from) ==
    LET reg == place_to_read_from.val
    IN  CASE place_to_read_from.kind = "Reg" -> Ok(ex, RegGet(ex, reg))
          [] place_to_read_from.kind = "Addr" -> read_u16(ex, RegGet(ex, reg))
          [] place_to_read_from.kind = "AddrInc" ->
                Try(read_u16(ex, wrapping_add(RegGet(ex, reg), 2)), LAMBDA num :
                Ok(RegSet(ex, reg, wrapping_add(RegGet(ex, reg), 2)), num.val))
          [] place_to_read_from.kind = "Number" -> Ok(ex, place_to_read_from.val)
          [] place_to_read_from.kind = "Port" -> Ok(ex, ex.display[place_to_read_from.val])

read_from(ex, place_to_read_from) ==
    LET reg == place_to_read_from.val
    IN  CASE place_to_read_from.kind = "Reg" -> Ok(ex, RegGet(ex, reg))
          [] place_to_read_from.kind = "Addr" -> read_u16(ex, RegGet(ex, reg))
          [] place_to_read_from.kind = "AddrInc" ->
                Try(read_u16(ex, RegGet(ex, reg)), LAMBDA num :
                Ok(RegSet(ex, reg, wrapping_add(RegGet(ex, reg), 2)), num.val))
          [] place_to_read_from.kind = "Number" -> Ok(ex, place_to_read_from.val)
          [] place_to_read_from.kind = "Port" -> Ok(ex, ex.display[place_to_read_from.val])

write_to(ex, place_to_write_to, num) ==
    LET reg == place_to_write_to.val
    IN  CASE place_to_write_to.kind = "Reg" -> Ok(RegSet(ex, reg, num), 0)
          [] place_to_write_to.kind \in {"Addr", "AddrInc"} ->
                write_u16(ex, RegGet(ex, reg), num)
          [] place_to_write_to.kind = "Port" ->
                Ok([ex EXCEPT !.display[place_to_write_to.val] = num], 0)
          [] place_to_write_to.kind = "Number" -> Panic(ex, "Cannot write to a number")

\* add_to_pc without the subtraction of MAX_PROGRAM_SIZE
add_to_pc_unwrapped(ex, n) == [ex EXCEPT !.curr_addr = @ + n]

add_to_pc(ex, n) ==
    LET sum == ex.curr_addr + n
    IN  [ex EXCEPT !.curr_addr =
            IF sum >= MAX_PROGRAM_SIZE THEN sum - MAX_PROGRAM_SIZE ELSE sum]

\* The closures handed to two_operands_instruction!; opcode is the table index
BinaryFn(opcode, a, b) ==
    CASE opcode = 1 -> b
      [] opcode = 2 -> wrapping_add(a, b)
      [] opcode = 3 -> wrapping_sub(a, b)
      [] opcode = 4 -> wrapping_mul(a, b)
      [] opcode = 5 -> a \div b
      [] opcode = 6 -> BitAnd(a, b, 16)
      [] opcode = 7 -> BitOr(a, b, 16)
      [] opcode = 8 -> BitXor(a, b, 16)

\* one_operand_instruction!(|a: u16| !a)
one_operand_instruction(ex, operands) ==
    Try(read_from(ex, operands[1]), LAMBDA a :
    Try(write_to(a.ex, operands[1], BitNot16(a.val)), LAMBDA w :
    Ok(add_to_pc(w.ex, OperandsSize(operands)), 0)))

\* a two_operands_instruction! that calls set_overflow when the sum, the
\* difference or the product does not fit 16 bits
two_operands_instruction_flagging(ex, operands, opcode) ==
    Try(read_from(ex, operands[1]), LAMBDA a :
    Try(read_from(a.ex, operands[2]), LAMBDA b :
    IF opcode = 5 /\ b.val = 0 THEN Panic(b.ex, "attempt to divide by zero")
    ELSE
    Try(write_to(b.ex, operands[1], BinaryFn(opcode, a.val, b.val)), LAMBDA w :
    Ok(add_to_pc([w.ex EXCEPT !.program_state_reg =
                     IF \/ opcode = 2 /\ a.val + b.val >= U16
                        \/ opcode = 3 /\ a.val < b.val
                        \/ opcode = 4 /\ a.val * b.val >= U16
                     THEN 8 ELSE 0],
                 OperandsSize(operands)), 0))))

\* two_operands_instruction!(f); u16::wrapping_div panics on a zero divisor
two_operands_instruction(ex, operands, opcode) ==
    Try(read_from(ex, operands[1]), LAMBDA a :
    Try(read_from(a.ex, operands[2]), LAMBDA b :
    IF opcode = 5 /\ b.val = 0 THEN Panic(b.ex, "attempt to divide by zero")
    ELSE
    Try(write_to(b.ex, operands[1], BinaryFn(opcode, a.val, b.val)), LAMBDA w :
    Ok(add_to_pc(w.ex, OperandsSize(operands)), 0))))

\* INSTRUCTION_SET[nop].executor
nop_executor(ex, operands) == Ok(add_to_pc(ex, 2), 0)

\* a jmp that reads its operand and goes on to the instruction after it
jmp_falls_through(ex, operands) ==
    Try(read_from(ex, operands[1]), LAMBDA addr :
    Ok(add_to_pc(addr.ex, OperandsSize(operands)), 0))

\* a jmp that does not compare the target with MAX_PROGRAM_SIZE
jmp_executor_unchecked(ex, operands) ==
    Try(read_from(ex, operands[1]), LAMBDA addr :
    Ok([addr.ex EXCEPT !.curr_addr = addr.val], 0))

\* INSTRUCTION_SET[jmp].executor
jmp_executor(ex, operands) ==
    Try(read_from(ex, operands[1]), LAMBDA addr :
    IF addr.val >= MAX_PROGRAM_SIZE
    THEN Err(addr.ex, InvalidAddress(addr.ex.curr_addr, addr.val))
    ELSE Ok([addr.ex EXCEPT !.curr_addr = addr.val], 0))

\* a transfer that reads its source and writes nothing
transfer_executor_silent(ex, operands) ==
    Try(read_from(ex, operands[2]), LAMBDA data :
    Ok(add_to_pc(data.ex, OperandsSize(operands)), 0))

\* INSTRUCTION_SET[wrt].executor and INSTRUCTION_SET[read].executor: the
\* second operand is read, the first written
transfer_executor(ex, operands) ==
    Try(read_from(ex, operands[2]), LAMBDA data :
    Try(write_to(data.ex, operands[1], data.val), LAMBDA w :
    Ok(add_to_pc(w.ex, OperandsSize(operands)), 0)))

\* a stop that moves curr_addr past its two bytes
stop_executor_advancing(ex, operands) ==
    Ok([ex EXCEPT !.has_finished = TRUE,
                  !.curr_addr = (ex.curr_addr + 2) % U16], 0)

\* INSTRUCTION_SET[stop].executor
stop_executor(ex, operands) == Ok([ex EXCEPT !.has_finished = TRUE], 0)

\* INSTRUCTION_SET[opcode].executor
InstructionExecutor(opcode, ex, operands) ==
    CASE opcode = 0 -> nop_executor(ex, operands)
      [] opcode \in 1..8 -> two_operands_instruction(ex, operands, opcode)
      [] opcode = 9 -> one_operand_instruction(ex, operands)
      [] opcode = 10 -> jmp_executor(ex, operands)
      [] opcode \in {11, 12} -> transfer_executor(ex, operands)
      [] opcode = 13 -> stop_executor(ex, operands)

\* execute_next_instruction that steps over an opcode outside the table
\* before it returns the error
execute_next_instruction_stepping(ex) ==
    IF ex.has_finished THEN Ok(ex, 0)
    ELSE
    Try(read_u8(ex, ex.curr_addr), LAMBDA instruction_code :
    IF instruction_code.val >= Len(INSTRUCTION_SET)
    THEN Err(add_to_pc(ex, 2), InvalidInstruction(ex.curr_addr, instruction_code.val))
    ELSE
    Try(get_instruction_operands(
            ex, INSTRUCTION_SET[instruction_code.val + 1].accepted_operands),
        LAMBDA operands :
    InstructionExecutor(instruction_code.val, ex, operands.val)))

\* execute_next_instruction without the early return on has_finished
execute_next_instruction_unhalted(ex) ==
    Try(read_u8(ex, ex.curr_addr), LAMBDA instruction_code :
    IF instruction_code.val >= Len(INSTRUCTION_SET)
    THEN Err(ex, InvalidInstruction(ex.curr_addr, instruction_code.val))
    ELSE
    Try(get_instruction_operands(
            ex, INSTRUCTION_SET[instruction_code.val + 1].accepted_operands),
        LAMBDA operands :
    InstructionExecutor(instruction_code.val, ex, operands.val)))

\* ProgramExecutor::execute_next_instruction, the step() of the executor
execute_next_instruction(ex) ==
    IF ex.has_finished THEN Ok(ex, 0)
    ELSE
    Try(read_u8(ex, ex.curr_addr), LAMBDA instruction_code :
    IF instruction_code.val >= Len(INSTRUCTION_SET)
    THEN Err(ex, InvalidInstruction(ex.curr_addr, instruction_code.val))
    ELSE
    Try(get_instruction_operands(
            ex, INSTRUCTION_SET[instruction_code.val + 1].accepted_operands),
        LAMBDA operands :
    InstructionExecutor(instruction_code.val, ex, operands.val)))

(***************************************************************************)
(* Text: the str methods and regular expressions the code uses             *)
(***************************************************************************)
DecDigits == {"0", "1", "2", "3", "4", "5", "6", "7", "8", "9"}
LowerLetters == {"a", "b", "c", "d", "e", "f", "g", "h", "i", "j", "k", "l", "m",
                 "n", "o", "p", "q", "r", "s", "t", "u", "v", "w", "x", "y", "z"}
UpperLetters == {"A", "B", "C", "D", "E", "F", "G", "H", "I", "J", "K", "L", "M",
                 "N", "O", "P", "Q", "R", "S", "T", "U", "V", "W", "X", "Y", "Z"}
\* char::is_ascii_hexdigit && !char::is_ascii_digit
HexLetters == {"a", "b", "c", "d", "e", "f", "A", "B", "C", "D", "E", "F"}
\* char::is_whitespace, within the alphabet of the sources
WhiteSpace == {" ", "\t", "\r", "\n"}
\* the class \w of the regex crate, within the alphabet of the sources
WordChars == DecDigits \cup LowerLetters \cup UpperLetters \cup {"_"}

LowerOf ==
    [c \in UpperLetters |->
        CASE c = "A" -> "a" [] c = "B" -> "b" [] c = "C" -> "c" [] c = "D" -> "d"
          [] c = "E" -> "e" [] c = "F" -> "f" [] c = "G" -> "g" [] c = "H" -> "h"
          [] c = "I" -> "i" [] c = "J" -> "j" [] c = "K" -> "k" [] c = "L" -> "l"
          [] c = "M" -> "m" [] c = "N" -> "n" [] c = "O" -> "o" [] c = "P" -> "p"
          [] c = "Q" -> "q" [] c = "R" -> "r" [] c = "S" -> "s" [] c = "T" -> "t"
          [] c = "U" -> "u" [] c = "V" -> "v" [] c = "W" -> "w" [] c = "X" -> "x"
          [] c = "Y" -> "y" [] c = "Z" -> "z"]

\* a to_lowercase that keeps the case
to_lowercase_kept(s) == s

\* str::to_lowercase
to_lowercase(s) ==
    [i \in 1..Len(s) |-> IF s[i] \in UpperLetters THEN LowerOf[s[i]] ELSE s[i]]

\* str::starts_with
starts_with(s, prefix) ==
    Len(s) >= Len(prefix) /\ SubSeq(s, 1, Len(prefix)) = prefix

\* str::ends_with(char)
ends_with(s, c) == Len(s) > 0 /\ s[Len(s)] = c

RECURSIVE trim_start(_)
trim_start(s) ==
    IF s # <<>> /\ Head(s) \in WhiteSpace THEN trim_start(Tail(s)) ELSE s

RECURSIVE trim_end(_)
trim_end(s) ==
    IF s # <<>> /\ s[Len(s)] \in WhiteSpace
    THEN trim_end(SubSeq(s, 1, Len(s) - 1)) ELSE s

\* str::trim
trim(s) == trim_end(trim_start(s))

\* position of the first c in s at or after from; Len(s) + 1 when there is none
RECURSIVE IndexOf(_, _, _)
IndexOf(s, c, from) ==
    IF from > Len(s) THEN Len(s) + 1
    ELSE IF s[from] = c THEN from
    ELSE IndexOf(s, c, from + 1)

\* str::split(char), collected: the pieces of the two halves of s, the piece
\* that the middle cuts joined again
RECURSIVE split(_, _)
split(s, c) ==
    IF Len(s) <= 1 THEN (IF s = <<c>> THEN << <<>>, <<>> >> ELSE <<s>>)
    ELSE
    With(split(SubSeq(s, 1, Len(s) \div 2), c), LAMBDA left :
    With(split(SubSeq(s, Len(s) \div 2 + 1, Len(s)), c), LAMBDA right :
    SubSeq(left, 1, Len(left) - 1) \o <<left[Len(left)] \o right[1]>> \o Tail(right)))

\* str::splitn(2, char), collected
splitn2(s, c) ==
    LET at == IndexOf(s, c, 1)
    IN  IF at > Len(s) THEN <<s>>
        ELSE <<SubSeq(s, 1, at - 1), SubSeq(s, at + 1, Len(s))>>

\* the regular expression ^\w+$  (and ^(?:\w)+$)
IsWord(s) == s # <<>> /\ \A i \in 1..Len(s) : s[i] \in WordChars

(***************************************************************************)
(* highlighting.rs: wrapping_parse.  Option<u16> is <<>> for None and      *)
(* <<n>> for Some(n).  The i32 accumulator is kept as its two 16-bit       *)
(* halves <<hi, lo>> (two's complement), so wrapping_mul and wrapping_add  *)
(* wrap at 2^32 as in the code.                                            *)
(***************************************************************************)
\* char::to_digit(base) for base 10 and 16; -1 stands for None
to_digit(c, base) ==
    CASE c = "0" -> 0 [] c = "1" -> 1 [] c = "2" -> 2 [] c = "3" -> 3 [] c = "4" -> 4
      [] c = "5" -> 5 [] c = "6" -> 6 [] c = "7" -> 7 [] c = "8" -> 8 [] c = "9" -> 9
      [] base = 16 /\ c \in {"a", "A"} -> 10
      [] base = 16 /\ c \in {"b", "B"} -> 11
      [] base = 16 /\ c \in {"c", "C"} -> 12
      [] base = 16 /\ c \in {"d", "D"} -> 13
      [] base = 16 /\ c \in {"e", "E"} -> 14
      [] base = 16 /\ c \in {"f", "F"} -> 15
      [] OTHER -> -1

\* i32::wrapping_mul(res, base) followed by i32::wrapping_add(digit)
I32MulAdd(res, base, digit) ==
    LET lo == res[2] * base + digit
        hi == res[1] * base + (lo \div U16)
    IN  <<hi % U16, lo % U16>>

\* the loop `for c in text.chars().rev()`: i runs from the last character
\* of text down to the first
RECURSIVE ParseLoop(_, _, _, _)
ParseLoop(text, i, base, res) ==
    IF i = 0 THEN <<res>>
    ELSE IF to_digit(text[i], base) < 0 THEN <<>>
    ELSE ParseLoop(text, i - 1, base, I32MulAdd(res, base, to_digit(text[i], base)))

wrapping_parse(text0) ==
    LET negative == starts_with(text0, <<"-">>)
        text1 == IF negative THEN Tail(text0) ELSE text0
        prefixed == starts_with(text1, <<"0", "x">>)
        text == IF prefixed THEN SubSeq(text1, 3, Len(text1)) ELSE text1
        base == IF prefixed THEN 16
                ELSE IF \E i \in 1..Len(text1) : text1[i] \in HexLetters THEN 16
                ELSE 10
        res == ParseLoop(text, Len(text), base, <<0, 0>>)
    IN  IF text = <<>> THEN <<>>
        ELSE IF res = <<>> THEN <<>>
        ELSE IF negative THEN <<(U16 - res[1][2]) % U16>>
        ELSE <<res[1][2]>>

(***************************************************************************)
(* compiler.rs.  A method of Compiler that can fail returns [c, tag, val]: *)
(* c the Compiler after it (parse_operand pushes label mentions), tag      *)
(* "Ok", "Err" or "Panic", val the value, the CompilationError or the      *)
(* panic message.                                                          *)
(***************************************************************************)
COk(c, v) == [c |-> c, tag |-> "Ok", val |-> v]
CErr(c, e) == [c |-> c, tag |-> "Err", val |-> e]
CPanic(c, msg) == [c |-> c, tag |-> "Panic", val |-> msg]

Last(s) == s[Len(s)]

\* get_expected_operand_types_string; the result is the list of the pieces
\* the code appends to the String
get_expected_operand_types_string(mask) ==
    LET OPERAND_TYPES == << <<REG_MASK, "register">>, <<ADDR_MASK, "address">>,
                            <<ADDR_INC_MASK, "address++">>, <<PORT_MASK, "port">>,
                            <<NUMBER_MASK, "number">> >>
        expected == SelectSeq(OPERAND_TYPES, LAMBDA t : Accepts(mask, t[1]))
        piece(i) == IF i + 1 # Len(expected) THEN <<expected[i][2], ", ">>
                    ELSE <<expected[i][2]>>
        RECURSIVE joined(_)
        joined(i) == IF i >= Len(expected) THEN <<>> ELSE piece(i) \o joined(i + 1)
    IN  IF expected = <<>> THEN <<"nothing">>
        ELSE IF Len(expected) = 1 THEN <<expected[1][2]>>
        ELSE joined(1) \o <<" or ", Last(expected)[2]>>

\* impl Display for InstructionOperand, as the pieces of the format string
OperandToString(operand) ==
    CASE operand.kind = "Reg" /\ operand.val = 4 -> <<"SP">>
      [] operand.kind = "Reg" /\ operand.val # 4 -> <<"R", operand.val>>
      [] operand.kind = "Addr" -> <<"(R", operand.val, ")">>
      [] operand.kind = "AddrInc" -> <<"(R", operand.val, ")+">>
      [] operand.kind = "Port" -> <<"P", operand.val>>
      [] operand.kind = "Number" -> <<"number">>

UnknownInstruction(line, instruction) ==
    [kind |-> "UnknownInstruction", line |-> line, instruction |-> instruction]
NoLabelWithSuchName(line, name) ==
    [kind |-> "NoLabelWithSuchName", line |-> line, name |-> name]
CInvalidOperand(line, operand) ==
    [kind |-> "InvalidOperand", line |-> line, operand |-> operand]
WrongNumberOfOperands(line, expected, found) ==
    [kind |-> "WrongNumberOfOperands", line |-> line, expected |-> expected,
     found |-> found]
WrongOperandType(line, expected, found) ==
    [kind |-> "WrongOperandType", line |-> line, expected |-> expected,
     found |-> found]
OutOfMemory(line) == [kind |-> "OutOfMemory", line |-> line]
LabelAlreadyExists(line, name) ==
    [kind |-> "LabelAlreadyExists", line |-> line, name |-> name]
InvalidLabelName(line, name) ==
    [kind |-> "InvalidLabelName", line |-> line, name |-> name]

\* Compiler::build
BuildCompiler ==
    [program |-> ZeroBytes,
     label_mentions_in_program |-> <<>>,
     line_addresses |-> <<>>,
     line_i |-> 0,
     errors |-> <<>>]

\* self.instruction_codes.get(name): <<>> for None, <<code>> for Some(code)
instruction_codes(name) ==
    LET found == {i \in 1..Len(INSTRUCTION_SET) : INSTRUCTION_SET[i].name = name}
    IN  IF found = {} THEN <<>> ELSE <<(CHOOSE i \in found : TRUE) - 1>>

\* Compiler::process_operand; the value is <<operand_byte, number>> with
\* number <<>> for None and <<n>> for Some(n)
process_operand(operand, accepted_mask, line_i) ==
    CASE operand.kind = "Reg" /\ Accepts(accepted_mask, REG_MASK) ->
            [tag |-> "Ok", val |-> <<operand.val, <<>> >>]
      [] operand.kind = "Addr" /\ Accepts(accepted_mask, ADDR_MASK) ->
            [tag |-> "Ok", val |-> <<operand.val + 5, <<>> >>]
      [] operand.kind = "AddrInc" /\ Accepts(accepted_mask, ADDR_INC_MASK) ->
            [tag |-> "Ok", val |-> <<operand.val + 10, <<>> >>]
      [] operand.kind = "Port" /\ Accepts(accepted_mask, PORT_MASK) ->
            [tag |-> "Ok", val |-> <<operand.val, <<>> >>]
      [] operand.kind = "Number" /\ Accepts(accepted_mask, NUMBER_MASK) ->
            [tag |-> "Ok", val |-> <<NUMBER_OPERAND_CODE, <<operand.val>> >>]
      [] OTHER ->
            [tag |-> "Err",
             val |-> WrongOperandType(line_i,
                                      get_expected_operand_types_string(accepted_mask),
                                      OperandToString(operand))]

\* convert_operands_to_binary with the first operand in the low nibble
convert_operands_to_binary_swapped(c, operands, accepted) ==
    LET expected_operands_num == AcceptedCount(accepted)
        processed(i) == With(process_operand(operands[i], accepted[i], c.line_i),
                             LAMBDA r : [c |-> c, tag |-> r.tag, val |-> r.val])
    IN  IF expected_operands_num # Len(operands)
        THEN CErr(c, WrongNumberOfOperands(c.line_i, expected_operands_num,
                                           Len(operands)))
        ELSE IF Len(operands) = 0 THEN COk(c, <<0, <<>> >>)
        ELSE
        Try(processed(1), LAMBDA first :
        IF Len(operands) = 1 THEN COk(c, <<first.val[1], first.val[2]>>)
        ELSE
        Try(processed(2), LAMBDA second :
        IF second.val[2] # <<>> /\ first.val[2] # <<>>
        THEN CPanic(c, "assertion failed")
        ELSE COk(c, <<second.val[1] * 16 + first.val[1],
                      IF second.val[2] # <<>> THEN second.val[2] ELSE first.val[2]>>)))

\* Compiler::convert_operands_to_binary; operands is <<>>, <<a>> or <<a, b>>
convert_operands_to_binary(c, operands, accepted) ==
    LET expected_operands_num == AcceptedCount(accepted)
        processed(i) == With(process_operand(operands[i], accepted[i], c.line_i),
                             LAMBDA r : [c |-> c, tag |-> r.tag, val |-> r.val])
    IN  IF expected_operands_num # Len(operands)
        THEN CErr(c, WrongNumberOfOperands(c.line_i, expected_operands_num,
                                           Len(operands)))
        ELSE IF Len(operands) = 0 THEN COk(c, <<0, <<>> >>)
        ELSE
        Try(processed(1), LAMBDA first :
        IF Len(operands) = 1 THEN COk(c, <<first.val[1] * 16, first.val[2]>>)
        ELSE
        Try(processed(2), LAMBDA second :
        IF second.val[2] # <<>> /\ first.val[2] # <<>>
        THEN CPanic(c, "assertion failed")
        ELSE COk(c, <<first.val[1] * 16 + second.val[1],
                      IF second.val[2] # <<>> THEN second.val[2] ELSE first.val[2]>>)))

\* Compiler::str_reg_to_num on a match of (r0|r1|r2|r3|sp); -1: no match
str_reg_to_num(r) ==
    CASE r = <<"r", "0">> -> 0
      [] r = <<"r", "1">> -> 1
      [] r = <<"r", "2">> -> 2
      [] r = <<"r", "3">> -> 3
      [] r = <<"s", "p">> -> 4
      [] OTHER -> -1

\* the capture of ^p([0-9]|1[0-5])$ parsed as u8; -1: no match
PortNumber(s) ==
    IF Len(s) = 2 /\ s[1] = "p" /\ s[2] \in DecDigits THEN to_digit(s[2], 10)
    ELSE IF Len(s) = 3 /\ s[1] = "p" /\ s[2] = "1"
            /\ s[3] \in {"0", "1", "2", "3", "4", "5"}
    THEN 10 + to_digit(s[3], 10)
    ELSE -1

\* Compiler::parse_operand
parse_operand(c, string0) ==
    With(trim(string0), LAMBDA string :
    With(wrapping_parse(string), LAMBDA num :
    IF str_reg_to_num(string) >= 0
    THEN COk(c, Reg(str_reg_to_num(string)))
    ELSE IF Len(string) = 4 /\ string[1] = "(" /\ string[4] = ")"
            /\ str_reg_to_num(SubSeq(string, 2, 3)) >= 0
    THEN COk(c, Addr(str_reg_to_num(SubSeq(string, 2, 3))))
    ELSE IF Len(string) = 5 /\ string[1] = "(" /\ string[4] = ")" /\ string[5] = "+"
            /\ str_reg_to_num(SubSeq(string, 2, 3)) >= 0
    THEN COk(c, AddrInc(str_reg_to_num(SubSeq(string, 2, 3))))
    ELSE IF PortNumber(string) >= 0
    THEN COk(c, Port(PortNumber(string)))
    ELSE IF num # <<>>
    THEN COk(c, Number(num[1]))
    ELSE IF Len(string) >= 2 /\ string[1] = "@" /\ IsWord(Tail(string))
    THEN COk([c EXCEPT !.label_mentions_in_program =
                  Append(@, <<Tail(string), c.line_i, Last(c.line_addresses) + 2>>)],
             Number(0))
    ELSE CErr(c, CInvalidOperand(c.line_i, string))))

\* the match on operands[..] in process_instruction: the operands parsed in
\* order, the value <<>>, <<a>> or <<a, b>>
ParseOperands(c, operands) ==
    IF Len(operands) = 0 THEN COk(c, <<>>)
    ELSE
    Try(parse_operand(c, operands[1]), LAMBDA a :
    IF Len(operands) = 1 THEN COk(a.c, <<a.val>>)
    ELSE
    Try(parse_operand(a.c, operands[2]), LAMBDA b :
    COk(b.c, <<a.val, b.val>>)))

\* process_instruction without its comparison of the number of operands
process_instruction_uncounted(c, text) ==
    With(splitn2(text, " "), LAMBDA words :
    With(instruction_codes(words[1]), LAMBDA instruction_code :
    With(IF Len(words) = 2 THEN split(words[2], ",") ELSE <<>>, LAMBDA operands :
    IF words[1] = <<>> THEN COk(c, <<>>)
    ELSE IF instruction_code = <<>> THEN CErr(c, UnknownInstruction(c.line_i, words[1]))
    ELSE
    With(INSTRUCTION_SET[instruction_code[1] + 1].accepted_operands, LAMBDA accepted_operands :
    Try(ParseOperands(c, operands), LAMBDA parsed :
    Try(convert_operands_to_binary(parsed.c, parsed.val, accepted_operands),
        LAMBDA binary :
    COk(binary.c, <<instruction_code[1] * U8 + binary.val[1], binary.val[2]>>)))))))

\* Compiler::process_instruction; the value is <<>> for None and
\* <<instruction, number>> for Some((instruction, number))
process_instruction(c, text) ==
    With(splitn2(text, " "), LAMBDA words :
    With(instruction_codes(words[1]), LAMBDA instruction_code :
    With(IF Len(words) = 2 THEN split(words[2], ",") ELSE <<>>, LAMBDA operands :
    IF words[1] = <<>> THEN COk(c, <<>>)
    ELSE IF instruction_code = <<>> THEN CErr(c, UnknownInstruction(c.line_i, words[1]))
    ELSE
    With(INSTRUCTION_SET[instruction_code[1] + 1].accepted_operands, LAMBDA accepted_operands :
    IF Len(operands) # AcceptedCount(accepted_operands)
    THEN CErr(c, WrongNumberOfOperands(c.line_i, AcceptedCount(accepted_operands),
                                       Len(operands)))
    ELSE
    Try(ParseOperands(c, operands), LAMBDA parsed :
    Try(convert_operands_to_binary(parsed.c, parsed.val, accepted_operands),
        LAMBDA binary :
    COk(binary.c, <<instruction_code[1] * U8 + binary.val[1], binary.val[2]>>)))))))

\* Compiler::preprocess_line
preprocess_line(line) == split(trim(line), ";")[1]

(***************************************************************************)
(* Compiler::compile_code, one loop iteration at a time.  l holds the      *)
(* locals of the call and its position pc: "labels" (the loop that saves   *)
(* the label names), "emit" (the loop that compiles the lines), "patch"    *)
(* (the loop over the label mentions), "done" (returned).  Lines and       *)
(* mentions are numbered from 1 here and from 0 in the code; the line      *)
(* numbers stored in errors and mentions are the code's.                   *)
(***************************************************************************)
HighlightedError(from, to, e) == [range |-> <<from, to>>, error |-> e]

\* HashMap::insert
MapInsert(map, key, value) ==
    [k \in (DOMAIN map) \cup {key} |-> IF k = key THEN value ELSE map[k]]

IdleCompile == [pc |-> "idle"]

\* compile_code up to the first loop, without `self.program = [0; MAX_PROGRAM_SIZE]`
CompileBeginKeepsProgram(c, asm_code0) ==
    LET asm_code == to_lowercase(asm_code0)
    IN  [c |-> c,
         l |-> [pc |-> "labels",
                asm_code_chars |-> Len(asm_code),
                lines |-> split(asm_code, "\n"),
                i |-> 1,
                label_names |-> {},
                errors |-> <<>>,
                curr_symbol |-> 0,
                label_addresses |-> [k \in {} |-> 0],
                line_start_symbol_indexes |-> <<>>],
         panic |-> "none"]

\* compile_code up to the first loop
CompileBegin(c, asm_code0) ==
    LET asm_code == to_lowercase(asm_code0)
    IN  [c |-> [c EXCEPT !.program = ZeroBytes],
         l |-> [pc |-> "labels",
                asm_code_chars |-> Len(asm_code),
                lines |-> split(asm_code, "\n"),
                i |-> 1,
                label_names |-> {},
                errors |-> <<>>,
                curr_symbol |-> 0,
                label_addresses |-> [k \in {} |-> 0],
                line_start_symbol_indexes |-> <<>>],
         panic |-> "none"]

\* a first loop that does not insert the names into label_names
LabelPassStepForgetful(c, l) ==
    IF l.i > Len(l.lines)
    THEN [c |-> [c EXCEPT !.label_mentions_in_program = <<>>,
                          !.line_addresses = <<0>>],
          l |-> [l EXCEPT !.pc = "emit", !.i = 1, !.curr_symbol = 0,
                          !.label_addresses = [k \in {} |-> 0],
                          !.line_start_symbol_indexes = <<>>],
          panic |-> "none"]
    ELSE
    With(preprocess_line(l.lines[l.i]), LAMBDA line :
    LET raw_line_len == Len(l.lines[l.i]) + 1
        label_name == SubSeq(line, 1, Len(line) - 1)
        range_error(e) ==
            HighlightedError(l.curr_symbol, l.curr_symbol + raw_line_len, e)
        errors ==
            IF ~ends_with(line, ":") THEN l.errors
            ELSE IF IsWord(label_name)
            THEN IF label_name \in l.label_names
                 THEN Append(l.errors, range_error(LabelAlreadyExists(l.i - 1, label_name)))
                 ELSE l.errors
            ELSE Append(l.errors, range_error(InvalidLabelName(l.i - 1, label_name)))
        label_names == l.label_names
    IN  [c |-> c,
         l |-> [l EXCEPT !.errors = errors, !.label_names = label_names,
                         !.curr_symbol = @ + raw_line_len, !.i = @ + 1],
         panic |-> "none"])

\* one iteration of `for &(i, raw_line) in &lines` of the first loop; after
\* the last line, the statements that set up the second loop
LabelPassStep(c, l) ==
    IF l.i > Len(l.lines)
    THEN [c |-> [c EXCEPT !.label_mentions_in_program = <<>>,
                          !.line_addresses = <<0>>],
          l |-> [l EXCEPT !.pc = "emit", !.i = 1, !.curr_symbol = 0,
                          !.label_addresses = [k \in {} |-> 0],
                          !.line_start_symbol_indexes = <<>>],
          panic |-> "none"]
    ELSE
    With(preprocess_line(l.lines[l.i]), LAMBDA line :
    LET raw_line_len == Len(l.lines[l.i]) + 1
        label_name == SubSeq(line, 1, Len(line) - 1)
        range_error(e) ==
            HighlightedError(l.curr_symbol, l.curr_symbol + raw_line_len, e)
        errors ==
            IF ~ends_with(line, ":") THEN l.errors
            ELSE IF IsWord(label_name)
            THEN IF label_name \in l.label_names
                 THEN Append(l.errors, range_error(LabelAlreadyExists(l.i - 1, label_name)))
                 ELSE l.errors
            ELSE Append(l.errors, range_error(InvalidLabelName(l.i - 1, label_name)))
        label_names ==
            IF ends_with(line, ":") /\ IsWord(label_name)
            THEN l.label_names \cup {label_name} ELSE l.label_names
    IN  [c |-> c,
         l |-> [l EXCEPT !.errors = errors, !.label_names = label_names,
                         !.curr_symbol = @ + raw_line_len, !.i = @ + 1],
         panic |-> "none"])

\* the end of an iteration of the second loop: line_addresses.push(..),
\* curr_symbol += line_len_raw
EndOfLine(c, l, errors, label_addresses, instruction_size) ==
    [c |-> [c EXCEPT !.line_addresses = Append(@, Last(@) + instruction_size)],
     l |-> [l EXCEPT !.errors = errors,
                     !.label_addresses = label_addresses,
                     !.line_start_symbol_indexes = Append(@, l.curr_symbol),
                     !.curr_symbol = @ + Len(l.lines[l.i]) + 1,
                     !.i = @ + 1],
     panic |-> "none"]

\* an Ok(binary) arm that advances the address by 2 behind an immediate
EmitBinaryNarrow(c, l, instruction, number) ==
    LET addr == Last(c.line_addresses)
        range_error(e) ==
            HighlightedError(l.curr_symbol, l.curr_symbol + Len(l.lines[l.i]) + 1, e)
        two_bytes == SetByte(SetByte(c.program, addr, instruction \div U8),
                             addr + 1, instruction % U8)
    IN  IF addr + 1 >= MAX_PROGRAM_SIZE
        THEN [c |-> c, l |-> l, panic |-> "index out of bounds"]
        ELSE IF number = <<>>
        THEN EndOfLine([c EXCEPT !.program = two_bytes], l, l.errors,
                       l.label_addresses, 2)
        ELSE IF addr + 3 >= MAX_PROGRAM_SIZE
        THEN [c |-> c, l |-> l, panic |-> "index out of bounds"]
        ELSE EndOfLine([c EXCEPT !.program =
                           SetByte(SetByte(two_bytes, addr + 2, number[1] \div U8),
                                   addr + 3, number[1] % U8)],
                       l,
                       IF addr + 1 >= MAX_PROGRAM_SIZE
                       THEN Append(l.errors, range_error(OutOfMemory(l.i - 1)))
                       ELSE l.errors,
                       l.label_addresses, 2)

\* the arm Ok(binary) of the match on process_instruction(line), with
\* binary = Some((instruction, number)); c is the Compiler after the call
EmitBinary(c, l, instruction, number) ==
    LET addr == Last(c.line_addresses)
        range_error(e) ==
            HighlightedError(l.curr_symbol, l.curr_symbol + Len(l.lines[l.i]) + 1, e)
        two_bytes == SetByte(SetByte(c.program, addr, instruction \div U8),
                             addr + 1, instruction % U8)
    IN  IF addr + 1 >= MAX_PROGRAM_SIZE
        THEN [c |-> c, l |-> l, panic |-> "index out of bounds"]
        ELSE IF number = <<>>
        THEN EndOfLine([c EXCEPT !.program = two_bytes], l, l.errors,
                       l.label_addresses, 2)
        ELSE IF addr + 3 >= MAX_PROGRAM_SIZE
        THEN [c |-> c, l |-> l, panic |-> "index out of bounds"]
        ELSE EndOfLine([c EXCEPT !.program =
                           SetByte(SetByte(two_bytes, addr + 2, number[1] \div U8),
                                   addr + 3, number[1] % U8)],
                       l,
                       IF addr + 1 >= MAX_PROGRAM_SIZE
                       THEN Append(l.errors, range_error(OutOfMemory(l.i - 1)))
                       ELSE l.errors,
                       l.label_addresses, 4)

\* one iteration of `for &(i, line) in &lines` of the second loop; after the
\* last line, line_start_symbol_indexes.push(asm_code.chars().count())
EmitStep(c0, l) ==
    IF l.i > Len(l.lines)
    THEN [c |-> c0,
          l |-> [l EXCEPT !.pc = "patch", !.i = 1,
                          !.line_start_symbol_indexes = Append(@, l.asm_code_chars)],
          panic |-> "none"]
    ELSE
    With([c0 EXCEPT !.line_i = l.i - 1], LAMBDA c :
    With(preprocess_line(l.lines[l.i]), LAMBDA line :
    IF ends_with(line, ":")
    THEN EndOfLine(c, l, l.errors,
                   MapInsert(l.label_addresses, SubSeq(line, 1, Len(line) - 1),
                             Last(c.line_addresses)),
                   0)
    ELSE
    With(process_instruction(c, line), LAMBDA result :
    CASE result.tag = "Panic" -> [c |-> result.c, l |-> l, panic |-> result.val]
      [] result.tag = "Err" ->
            EndOfLine(result.c, l,
                      Append(l.errors,
                             HighlightedError(l.curr_symbol,
                                              l.curr_symbol + Len(l.lines[l.i]) + 1,
                                              result.val)),
                      l.label_addresses, 0)
      [] result.tag = "Ok" /\ result.val = <<>> ->
            EndOfLine(result.c, l, l.errors, l.label_addresses, 0)
      [] result.tag = "Ok" /\ result.val # <<>> ->
            EmitBinary(result.c, l, result.val[1], result.val[2]))))

\* a back-patch pass that writes the low byte of the address first
PatchStepLowFirst(c, l) ==
    IF l.i > Len(c.label_mentions_in_program)
    THEN [c |-> [c EXCEPT !.errors = l.errors],
          l |-> [pc |-> "done"],
          panic |-> "none"]
    ELSE
    LET mention == c.label_mentions_in_program[l.i]
        label == mention[1]
        label_line == mention[2]
        mention_addr == mention[3]
        addr == l.label_addresses[label]
    IN  IF label \in DOMAIN l.label_addresses
        THEN IF mention_addr >= MAX_PROGRAM_SIZE
             THEN [c |-> c, l |-> l, panic |-> "index out of bounds"]
             ELSE IF ByteAt(c.program, mention_addr) # 0
             THEN [c |-> c, l |-> l, panic |-> "assertion failed"]
             ELSE IF mention_addr + 1 >= MAX_PROGRAM_SIZE
             THEN [c |-> c, l |-> l, panic |-> "index out of bounds"]
             ELSE IF ByteAt(c.program, mention_addr + 1) # 0
             THEN [c |-> c, l |-> l, panic |-> "assertion failed"]
             ELSE [c |-> [c EXCEPT !.program =
                                      SetByte(SetByte(@, mention_addr, addr % U8),
                                              mention_addr + 1, addr \div U8)],
                   l |-> [l EXCEPT !.i = @ + 1],
                   panic |-> "none"]
        ELSE [c |-> c,
              l |-> [l EXCEPT
                       !.errors = Append(@, HighlightedError(
                           l.line_start_symbol_indexes[label_line + 1],
                           l.line_start_symbol_indexes[label_line + 2],
                           NoLabelWithSuchName(label_line, label))),
                       !.i = @ + 1],
              panic |-> "none"]

\* a third loop that puts its errors before the ones already found
PatchStepErrorsFirst(c, l) ==
    IF l.i > Len(c.label_mentions_in_program)
    THEN [c |-> [c EXCEPT !.errors = l.errors],
          l |-> [pc |-> "done"],
          panic |-> "none"]
    ELSE
    LET mention == c.label_mentions_in_program[l.i]
        label == mention[1]
        label_line == mention[2]
        mention_addr == mention[3]
        addr == l.label_addresses[label]
    IN  IF label \in DOMAIN l.label_addresses
        THEN IF mention_addr >= MAX_PROGRAM_SIZE
             THEN [c |-> c, l |-> l, panic |-> "index out of bounds"]
             ELSE IF ByteAt(c.program, mention_addr) # 0
             THEN [c |-> c, l |-> l, panic |-> "assertion failed"]
             ELSE IF mention_addr + 1 >= MAX_PROGRAM_SIZE
             THEN [c |-> c, l |-> l, panic |-> "index out of bounds"]
             ELSE IF ByteAt(c.program, mention_addr + 1) # 0
             THEN [c |-> c, l |-> l, panic |-> "assertion failed"]
             ELSE [c |-> [c EXCEPT !.program =
                                      SetByte(SetByte(@, mention_addr, addr \div U8),
                                              mention_addr + 1, addr % U8)],
                   l |-> [l EXCEPT !.i = @ + 1],
                   panic |-> "none"]
        ELSE [c |-> c,
              l |-> [l EXCEPT
                       !.errors = <<HighlightedError(
                           l.line_start_symbol_indexes[label_line + 1],
                           l.line_start_symbol_indexes[label_line + 2],
                           NoLabelWithSuchName(label_line, label))>> \o @,
                       !.i = @ + 1],
              panic |-> "none"]

\* one iteration of the loop over self.label_mentions_in_program.clone();
\* after the last mention, self.errors = errors
PatchStep(c, l) ==
    IF l.i > Len(c.label_mentions_in_program)
    THEN [c |-> [c EXCEPT !.errors = l.errors],
          l |-> [pc |-> "done"],
          panic |-> "none"]
    ELSE
    LET mention == c.label_mentions_in_program[l.i]
        label == mention[1]
        label_line == mention[2]
        mention_addr == mention[3]
        addr == l.label_addresses[label]
    IN  IF label \in DOMAIN l.label_addresses
        THEN IF mention_addr >= MAX_PROGRAM_SIZE
             THEN [c |-> c, l |-> l, panic |-> "index out of bounds"]
             ELSE IF ByteAt(c.program, mention_addr) # 0
             THEN [c |-> c, l |-> l, panic |-> "assertion failed"]
             ELSE IF mention_addr + 1 >= MAX_PROGRAM_SIZE
             THEN [c |-> c, l |-> l, panic |-> "index out of bounds"]
             ELSE IF ByteAt(c.program, mention_addr + 1) # 0
             THEN [c |-> c, l |-> l, panic |-> "assertion failed"]
             ELSE [c |-> [c EXCEPT !.program =
                                      SetByte(SetByte(@, mention_addr, addr \div U8),
                                              mention_addr + 1, addr % U8)],
                   l |-> [l EXCEPT !.i = @ + 1],
                   panic |-> "none"]
        ELSE [c |-> c,
              l |-> [l EXCEPT
                       !.errors = Append(@, HighlightedError(
                           l.line_start_symbol_indexes[label_line + 1],
                           l.line_start_symbol_indexes[label_line + 2],
                           NoLabelWithSuchName(label_line, label))),
                       !.i = @ + 1],
              panic |-> "none"]

\* the next loop iteration of a compile_code that has not returned
CompileStep(c, l) ==
    CASE l.pc = "labels" -> LabelPassStep(c, l)
      [] l.pc = "emit" -> EmitStep(c, l)
      [] l.pc = "patch" -> PatchStep(c, l)

\* compile_code from the state s for at most n more loop iterations, or to
\* its return or to its panic: the first half of them, then the rest
RECURSIVE RunCompile(_, _)
RunCompile(s, n) ==
    IF n = 0 \/ s.panic # "none" \/ s.l.pc = "done" THEN s
    ELSE IF n = 1 THEN CompileStep(s.c, s.l)
    ELSE RunCompile(RunCompile(s, n \div 2), n - n \div 2)

\* Compiler::compile_code: each loop runs once per line, or once per label
\* mention, of which a line has at most two, and once more to end
compile_code(c, asm_code) ==
    With(CompileBegin(c, asm_code), LAMBDA s :
    RunCompile(s, 4 * Len(s.l.lines) + 3))

(***************************************************************************)
(* main.rs: the App.  A frame (App::update) first lets the error popup be  *)
(* closed and compiles the text of the editor (BeginFrame), then handles   *)
(* at most one click in build_run_debug_buttons (the Click actions); the   *)
(* loop of App::execute_instructions then runs as one Tick per iteration.  *)
(* The number of iterations get_required_ticks_and_update returns depends  *)
(* on the wall clock and on ticks_per_second: it is any number from 0 to   *)
(* MaxBatch.                                                               *)
(***************************************************************************)
MaxBatch == 2
MaxTicks == 4

\* the argument and the result of the last call observed; none yet
NoInput == [kind |-> "none"]
NoOutput == [tag |-> "pending"]

PopupNone == [kind |-> "None"]
PopupCompilationError(e) == [kind |-> "CompilationError", err |-> e]
PopupRuntimeError(e) == [kind |-> "RuntimeError", err |-> e]

\* App::execute_next_instruction without `self.program_executor.has_finished = true`
StepOutcomeKeepsRunning(r) ==
    [ex |-> r.ex,
     popup |-> IF r.tag = "Err" THEN PopupRuntimeError(r.val) ELSE PopupNone,
     result |-> [tag |-> r.tag, val |-> r.val]]

\* App::execute_next_instruction: [ex, popup, result]; result is what step()
\* returned
StepOutcome(r) ==
    [ex |-> IF r.tag = "Err" THEN [r.ex EXCEPT !.has_finished = TRUE] ELSE r.ex,
     popup |-> IF r.tag = "Err" THEN PopupRuntimeError(r.val) ELSE PopupNone,
     result |-> [tag |-> r.tag, val |-> r.val]]

app_execute_next_instruction(ex) == StepOutcome(execute_next_instruction(ex))

\* compilation_failed that does not look at the error list
compilation_failed_never(ex, popup, c) ==
    [failed |-> FALSE, ex |-> ex, popup |-> popup]

\* App::compilation_failed: [failed, ex, popup]
compilation_failed(ex, popup, c) ==
    IF c.errors # <<>>
    THEN [failed |-> TRUE,
          ex |-> [ex EXCEPT !.has_finished = TRUE],
          popup |-> PopupCompilationError(c.errors[1].error)]
    ELSE [failed |-> FALSE, ex |-> ex, popup |-> popup]

\* The branches of App::build_run_debug_buttons, each [ex, popup, runs, reset]:
\* runs tells whether the branch calls execute_instructions, reset whether it
\* called prepare_for_a_new_run
BuildClicked(ex, popup, c) ==
    LET ex1 == [ex EXCEPT !.is_in_debug_mode = FALSE, !.has_finished = TRUE]
        f == compilation_failed(ex1, popup, c)
    IN  [ex |-> IF f.failed THEN f.ex ELSE [f.ex EXCEPT !.memory = c.program],
         popup |-> f.popup, runs |-> FALSE, reset |-> FALSE]

RunClicked(ex, popup, c) ==
    LET ex1 == prepare_for_a_new_run([ex EXCEPT !.is_in_debug_mode = FALSE])
        f == compilation_failed(ex1, popup, c)
    IN  [ex |-> IF f.failed THEN f.ex ELSE [f.ex EXCEPT !.memory = c.program],
         popup |-> f.popup, runs |-> ~f.failed, reset |-> TRUE]

StopClicked(ex, popup, c) ==
    [ex |-> [ex EXCEPT !.is_in_debug_mode = FALSE, !.has_finished = TRUE],
     popup |-> popup, runs |-> FALSE, reset |-> FALSE]

StepOverClicked(ex, popup, c) ==
    LET tries == ex.has_finished \/ ~ex.is_in_debug_mode
        f == compilation_failed(ex, popup, c)
    IN  IF tries /\ ~f.failed
        THEN [ex |-> [prepare_for_a_new_run([f.ex EXCEPT !.is_in_debug_mode = TRUE])
                         EXCEPT !.memory = c.program],
              popup |-> f.popup, runs |-> FALSE, reset |-> TRUE]
        ELSE IF tries
        THEN [ex |-> f.ex, popup |-> f.popup, runs |-> TRUE, reset |-> FALSE]
        ELSE [ex |-> ex, popup |-> popup, runs |-> TRUE, reset |-> FALSE]

\* the Clear registers branch that sets curr_addr to 0 as well
ClearRegistersClickedResets(ex, popup, c) ==
    [ex |-> [ex EXCEPT !.registers =
                          [r \in 0..4 |-> IF r = 4 THEN MAX_PROGRAM_SIZE - 1 ELSE 0],
                       !.program_state_reg = 0,
                       !.curr_addr = 0],
     popup |-> popup, runs |-> FALSE, reset |-> FALSE]

ClearRegistersClicked(ex, popup, c) ==
    [ex |-> [ex EXCEPT !.registers =
                          [r \in 0..4 |-> IF r = 4 THEN MAX_PROGRAM_SIZE - 1 ELSE 0],
                       !.program_state_reg = 0],
     popup |-> popup, runs |-> FALSE, reset |-> FALSE]

NoClick(ex, popup, c) == [ex |-> ex, popup |-> popup, runs |-> FALSE, reset |-> FALSE]

Clicked(button, ex, popup, c) ==
    CASE button = "Build" -> BuildClicked(ex, popup, c)
      [] button = "Run" -> RunClicked(ex, popup, c)
      [] button = "Stop" -> StopClicked(ex, popup, c)
      [] button = "Step over" -> StepOverClicked(ex, popup, c)
      [] button = "Clear registers" -> ClearRegistersClicked(ex, popup, c)
      [] button = "none" -> NoClick(ex, popup, c)

\* "Run" is drawn only when the program is not running, "Stop" only when it is
ButtonShown(button, is_running) ==
    CASE button = "Run" -> ~is_running
      [] button = "Stop" -> is_running
      [] OTHER -> TRUE

\* the `let is_running` of build_run_debug_buttons
IsRunning(ex) == ~ex.has_finished /\ ~ex.is_in_debug_mode

\* App::update up to build_run_debug_buttons: show_error_popup, in which the
\* user may close the popup, and self.compiler.compile_code(&self.code); no
\* step() has been called in this frame yet
BeginFrame ==
    /\ panic = "none"
    /\ frame = "update"
    /\ pending = 0
    /\ \E close \in BOOLEAN :
          error_popup_info' = IF close THEN PopupNone ELSE error_popup_info
    /\ \E comp \in {compile_code(compiler, code)} :
           /\ compiler' = comp.c
           /\ panic' = comp.panic
    /\ frame' = "buttons"
    /\ output' = NoOutput
    /\ UNCHANGED <<code, program_executor, pending, ticks, cc, input>>

\* build_run_debug_buttons in a frame in which the button was clicked
\* ("none": no click).  n1 and n2 are the iteration counts of the call of
\* execute_instructions in the clicked branch and of the one under
\* `if is_running`; the iterations themselves are the Ticks that follow.
Frame(button, n1, n2) ==
    /\ panic = "none"
    /\ frame = "buttons"
    /\ \E after \in {Clicked(button, program_executor, error_popup_info, compiler)} :
       LET is_running == IsRunning(program_executor)
           loops == (IF after.runs THEN n1 ELSE 0) + (IF is_running THEN n2 ELSE 0)
           done == IF after.reset THEN 0 ELSE ticks
       IN  /\ ButtonShown(button, is_running)
           /\ after.runs \/ n1 = 0
           /\ is_running \/ n2 = 0
           /\ done + loops <= MaxTicks
           /\ program_executor' = after.ex
           /\ error_popup_info' = after.popup
           /\ pending' = loops
           /\ ticks' = done
    /\ frame' = "update"
    /\ UNCHANGED <<code, compiler, panic, cc, input, output>>

\* one iteration of the loop of App::execute_instructions
Tick ==
    /\ panic = "none"
    /\ pending > 0
    /\ \E r \in {app_execute_next_instruction(program_executor)} :
           /\ program_executor' = r.ex
           /\ error_popup_info' = r.popup
           /\ output' = [tag |-> r.result.tag, val |-> r.result.val,
                          halted |-> program_executor.has_finished]
           /\ panic' = IF r.result.tag = "Panic" THEN r.result.val ELSE "none"
    /\ pending' = pending - 1
    /\ ticks' = ticks + 1
    /\ UNCHANGED <<code, compiler, frame, cc, input>>

(***************************************************************************)
(* The texts typed into the editor                                         *)
(***************************************************************************)
\* the text App::default() puts in the editor:
\* mov r0, -1 / mov r1, @b / a: / add r0, 1 / mov (r1)+, 0xFFFF / jmp @a /
\* stop / b:, every line but the first behind 16 spaces
SrcDefault ==
    <<"m", "o", "v", " ", "r", "0", ",", " ", "-", "1", "\n", " ", " ", " ",
      " ", " ", " ", " ", " ", " ", " ", " ", " ", " ", " ", " ", " ", "m",
      "o", "v", " ", "r", "1", ",", " ", "@", "b", "\n", " ", " ", " ", " ",
      " ", " ", " ", " ", " ", " ", " ", " ", " ", " ", " ", " ", "a", ":",
      "\n", " ", " ", " ", " ", " ", " ", " ", " ", " ", " ", " ", " ", " ",
      " ", " ", " ", "a", "d", "d", " ", "r", "0", ",", " ", "1", "\n", " ",
      " ", " ", " ", " ", " ", " ", " ", " ", " ", " ", " ", " ", " ", " ",
      " ", "m", "o", "v", " ", "(", "r", "1", ")", "+", ",", " ", "0", "x",
      "F", "F", "F", "F", "\n", " ", " ", " ", " ", " ", " ", " ", " ", " ",
      " ", " ", " ", " ", " ", " ", " ", "j", "m", "p", " ", "@", "a", "\n",
      " ", " ", " ", " ", " ", " ", " ", " ", " ", " ", " ", " ", " ", " ",
      " ", " ", "s", "t", "o", "p", "\n", " ", " ", " ", " ", " ", " ", " ",
      " ", " ", " ", " ", " ", " ", " ", " ", " ", "b", ":">>

\* mov r0, -1 / a: / add r0, 1 / jmp @a / stop
SrcLoop ==
    <<"m", "o", "v", " ", "r", "0", ",", " ", "-", "1", "\n", "a", ":", "\n",
      "a", "d", "d", " ", "r", "0", ",", " ", "1", "\n", "j", "m", "p", " ",
      "@", "a", "\n", "s", "t", "o", "p">>

\* stop
SrcStop ==
    <<"s", "t", "o", "p">>

\* jmp sp
SrcJmpSp ==
    <<"j", "m", "p", " ", "s", "p">>

\* jmp @nowhere
SrcNowhere ==
    <<"j", "m", "p", " ", "@", "n", "o", "w", "h", "e", "r", "e">>

\* jmp -1
SrcFault ==
    <<"j", "m", "p", " ", "-", "1">>

Sources == {SrcJmpSp, SrcNowhere, SrcFault}

MaxLampPort == 0

\* the user replaces the text of the editor (TextEdit::multiline(&mut self.code))
EditCode ==
    /\ panic = "none"
    /\ frame = "update"
    /\ pending = 0
    /\ code' \in Sources \ {code}
    /\ UNCHANGED <<compiler, program_executor, error_popup_info, pending, ticks,
                   panic, frame, cc, input, output>>

\* a click on the lamp of bit 0 of port i in light_bulbs_panel_ui:
\* display[i] ^= 1 << (15 - j) with j = 15
ToggleLamp ==
    /\ panic = "none"
    /\ frame = "update"
    /\ pending = 0
    /\ \E i \in 0..MaxLampPort :
          program_executor' =
              [program_executor EXCEPT !.display[i] = BitXor(@, 1, 16)]
    /\ UNCHANGED <<code, compiler, error_popup_info, pending, ticks, panic, frame,
                   cc, input, output>>

ClickBuild == \E n2 \in 0..MaxBatch : Frame("Build", 0, n2)
ClickRun == \E n1 \in 0..MaxBatch : Frame("Run", n1, 0)
ClickStop == \E n2 \in 0..MaxBatch : Frame("Stop", 0, n2)
ClickStepOver == \E n1 \in 0..MaxBatch, n2 \in 0..MaxBatch : Frame("Step over", n1, n2)
ClickClearRegisters == \E n2 \in 0..MaxBatch : Frame("Clear registers", 0, n2)
NoButton == \E n2 \in 0..MaxBatch : Frame("none", 0, n2)

\* impl Default for App
Init ==
    /\ code = SrcDefault
    /\ compiler = BuildCompiler
    /\ program_executor = DefaultExecutor
    /\ error_popup_info = PopupNone
    /\ pending = 0
    /\ ticks = 0
    /\ panic = "none"
    /\ frame = "update"
    /\ cc = IdleCompile
    /\ input = NoInput
    /\ output = NoOutput

Next ==
    \/ BeginFrame
    \/ ClickBuild
    \/ ClickRun
    \/ ClickStop
    \/ ClickStepOver
    \/ ClickClearRegisters
    \/ NoButton
    \/ Tick
    \/ EditCode
    \/ ToggleLamp

Spec == Init /\ [][Next]_vars

(***************************************************************************)
(* compile_code on its own, one loop iteration at a time                   *)
(***************************************************************************)
NopLines == 2049

\* NopLines lines "nop"
SrcNops ==
    [i \in 1..(4 * NopLines - 1) |->
        CASE i % 4 = 1 -> "n" [] i % 4 = 2 -> "o" [] i % 4 = 3 -> "p"
          [] OTHER -> "\n"]

\* a: / mov @a, r0 / mov r0, 5
SrcRejectedMention ==
    <<"a", ":", "\n", "m", "o", "v", " ", "@", "a", ",", " ", "r", "0", "\n",
      "m", "o", "v", " ", "r", "0", ",", " ", "5">>

\* a: / a: / -x: / foo r0 / nop r0 / mov r0 / not 5 / mov r0, r1, r2 / jmp @b / wrt p15, (sp)+ ; lamps
SrcErrors ==
    <<"a", ":", "\n", "a", ":", "\n", "-", "x", ":", "\n",
      "f", "o", "o", " ", "r", "0", "\n", "n", "o", "p", " ", "r", "0", "\n",
      "m", "o", "v", " ", "r", "0", "\n", "n", "o", "t", " ", "5", "\n",
      "m", "o", "v", " ", "r", "0", ",", " ", "r", "1", ",", " ", "r", "2", "\n",
      "j", "m", "p", " ", "@", "b", "\n",
      "W", "R", "T", " ", "p", "1", "5", ",", " ", "(", "s", "p", ")", "+", " ",
      ";", " ", "l", "a", "m", "p", "s">>

\*   nop / nop ;c / b: ;c / ;only / (empty) / stop
SrcComments ==
    <<" ", " ", "n", "o", "p", "\n", "n", "o", "p", " ", ";", "c", "\n", "b",
      ":", " ", ";", "c", "\n", ";", "o", "n", "l", "y", "\n", "\n", "s",
      "t", "o", "p">>

\* wrt p0, 0x10 / read r1, p15 / not (r2) / mov (r3)+, -1 / div sp, r0
SrcOperands ==
    <<"w", "r", "t", " ", "p", "0", ",", " ", "0", "x", "1", "0", "\n", "r",
      "e", "a", "d", " ", "r", "1", ",", " ", "p", "1", "5", "\n", "n", "o",
      "t", " ", "(", "r", "2", ")", "\n", "m", "o", "v", " ", "(", "r", "3",
      ")", "+", ",", " ", "-", "1", "\n", "d", "i", "v", " ", "s", "p", ",",
      " ", "r", "0">>

\* mov @nowhere, r0
SrcNowhereRejected ==
    <<"m", "o", "v", " ", "@", "n", "o", "w", "h", "e", "r", "e", ",", " ",
      "r", "0">>

\* a: / A: / : / a b: / a: / _1: ;c / b:
SrcLabels ==
    <<"a", ":", "\n", "A", ":", "\n", ":", "\n", "a", " ", "b", ":", "\n",
      "a", ":", "\n", "_", "1", ":", " ", ";", "c", "\n", "b", ":">>

\* mov 5, zz / mov zz, yy / mov zz / mov 5, r0 / read p1, r0 / add r0, 5 /
\* bar / stop / jmp @z / jmp @y / -x:
SrcDiagnostics ==
    <<"m", "o", "v", " ", "5", ",", " ", "z", "z", "\n", "m", "o", "v", " ",
      "z", "z", ",", " ", "y", "y", "\n", "m", "o", "v", " ", "z", "z",
      "\n", "m", "o", "v", " ", "5", ",", " ", "r", "0", "\n", "r", "e",
      "a", "d", " ", "p", "1", ",", " ", "r", "0", "\n", "a", "d", "d", " ",
      "r", "0", ",", " ", "5", "\n", "b", "a", "r", "\n", "s", "t", "o",
      "p", "\n", "j", "m", "p", " ", "@", "z", "\n", "j", "m", "p", " ",
      "@", "y", "\n", "-", "x", ":">>

CompileSources ==
    Sources \cup {SrcDefault, SrcLoop, SrcStop, SrcNops, SrcRejectedMention, SrcErrors, SrcComments,
                   SrcOperands, SrcNowhereRejected, SrcLabels, SrcDiagnostics}

\* the call compile_code(&self.code), up to its first loop
CompileCall ==
    /\ panic = "none"
    /\ cc.pc = "idle"
    /\ \E s \in {CompileBegin(compiler, code)} :
           /\ compiler' = s.c
           /\ cc' = s.l
    /\ UNCHANGED <<code, program_executor, error_popup_info, pending, ticks, panic,
                   frame, input, output>>

\* an iteration of the loop that saves the names of the labels
LabelPass ==
    /\ panic = "none"
    /\ cc.pc = "labels"
    /\ \E s \in {LabelPassStep(compiler, cc)} :
           /\ compiler' = s.c
           /\ cc' = s.l
           /\ panic' = s.panic
    /\ UNCHANGED <<code, program_executor, error_popup_info, pending, ticks, frame,
                   input, output>>

\* an iteration of the loop that compiles the lines
Emit ==
    /\ panic = "none"
    /\ cc.pc = "emit"
    /\ \E s \in {EmitStep(compiler, cc)} :
           /\ compiler' = s.c
           /\ cc' = s.l
           /\ panic' = s.panic
    /\ UNCHANGED <<code, program_executor, error_popup_info, pending, ticks, frame,
                   input, output>>

\* an iteration of the loop that replaces the label mentions
Patch ==
    /\ panic = "none"
    /\ cc.pc = "patch"
    /\ \E s \in {PatchStep(compiler, cc)} :
           /\ compiler' = s.c
           /\ cc' = s.l
           /\ panic' = s.panic
    /\ UNCHANGED <<code, program_executor, error_popup_info, pending, ticks, frame,
                   input, output>>

\* compile_code on SrcNops before the iteration of the emit loop for the line
\* that lands at offset MAX_PROGRAM_SIZE: the first loop has run for every
\* line and once more, the emit loop for MAX_PROGRAM_SIZE / 2 lines
NopsAtTheEnd ==
    RunCompile(CompileBegin(BuildCompiler, SrcNops),
               NopLines + 1 + MAX_PROGRAM_SIZE \div 2)

\* the calls of compile_code: at the call for the short sources, at the end
\* of the image for SrcNops
CompileStarts ==
    {[code |-> src, compiler |-> BuildCompiler, cc |-> IdleCompile] :
        src \in CompileSources \ {SrcNops}}
    \cup {[code |-> SrcNops, compiler |-> NopsAtTheEnd.c, cc |-> NopsAtTheEnd.l]}

InitCompile ==
    /\ \E start \in CompileStarts :
           /\ code = start.code
           /\ compiler = start.compiler
           /\ cc = start.cc
    /\ program_executor = DefaultExecutor
    /\ error_popup_info = PopupNone
    /\ pending = 0
    /\ ticks = 0
    /\ panic = "none"
    /\ frame = "update"
    /\ input = NoInput
    /\ output = NoOutput

NextCompile ==
    \/ CompileCall
    \/ LabelPass
    \/ Emit
    \/ Patch

SpecCompile == InitCompile /\ [][NextCompile]_vars

(***************************************************************************)
(* wrapping_parse on its own: the texts of at most MaxLen characters of    *)
(* ParseAlphabet, and the numerals of ParseExamples                        *)
(***************************************************************************)
MaxLen == 3

ParseAlphabet == {"-", "0", "1", "9", "x", "f"}

\* 10, 256, 0x10, -0x10, 4095, 65535, 65536, 0xffff, 0xFFFF
ParseExamples ==
    {<<"1", "0">>, <<"2", "5", "6">>, <<"0", "x", "1", "0">>,
     <<"-", "0", "x", "1", "0">>, <<"4", "0", "9", "5">>,
     <<"6", "5", "5", "3", "5">>, <<"6", "5", "5", "3", "6">>,
     <<"0", "x", "f", "f", "f", "f">>, <<"0", "x", "F", "F", "F", "F">>}

ParseTexts ==
    UNION {[1..n -> ParseAlphabet] : n \in 0..MaxLen} \cup ParseExamples

\* the call wrapping_parse(text)
ParseCall ==
    /\ input.kind = "text"
    /\ output.tag = "pending"
    /\ output' = [tag |-> "parsed", val |-> wrapping_parse(input.text)]
    /\ UNCHANGED <<code, compiler, program_executor, error_popup_info, pending,
                   ticks, panic, frame, cc, input>>

InitParse ==
    /\ code = <<>>
    /\ compiler = BuildCompiler
    /\ program_executor = DefaultExecutor
    /\ error_popup_info = PopupNone
    /\ pending = 0
    /\ ticks = 0
    /\ panic = "none"
    /\ frame = "update"
    /\ cc = IdleCompile
    /\ input \in {[kind |-> "text", text |-> t] : t \in ParseTexts}
    /\ output = NoOutput

NextParse == ParseCall

SpecParse == InitParse /\ [][NextParse]_vars

(***************************************************************************)
(* The operand nibble from the assembler to the executor: process_operand  *)
(* on an operand for a slot of an instruction, then                        *)
(* get_instruction_operand on what it produced                             *)
(***************************************************************************)
NumberSamples == {0, 1, 255, 256, 4095, 4096, 32768, 65535}

OperandSamples ==
    {Reg(r) : r \in 0..4} \cup {Addr(r) : r \in 0..4} \cup {AddrInc(r) : r \in 0..4}
        \cup {Port(p) : p \in 0..15} \cup {Number(n) : n \in NumberSamples}

\* the operand slots of the instruction table
OperandSlots ==
    {sl \in (0..(Len(INSTRUCTION_SET) - 1)) \X {1, 2} :
        INSTRUCTION_SET[sl[1] + 1].accepted_operands[sl[2]] # 0}

SlotMask(in) == INSTRUCTION_SET[in.instruction + 1].accepted_operands[in.slot]

\* an executor at an instruction whose immediate is number, as the emit loop
\* of compile_code writes it: program[addr + 2], program[addr + 3]
ExecutorHolding(number) ==
    [DefaultExecutor EXCEPT !.memory =
        IF number = <<>> THEN ZeroBytes
        ELSE SetByte(SetByte(ZeroBytes, 2, number[1] \div U8), 3, number[1] % U8)]

\* the call process_operand(operand, accepted_mask, line_i)
Encode ==
    /\ input.kind = "operand"
    /\ output.tag = "pending"
    /\ output' = [tag |-> "encoded",
                  val |-> process_operand(input.operand, SlotMask(input), 0)]
    /\ UNCHANGED <<code, compiler, program_executor, error_popup_info, pending,
                   ticks, panic, frame, cc, input>>

\* the call get_instruction_operand(accepted_operand_types, operand) on the
\* nibble and the immediate that process_operand returned
Decode ==
    /\ input.kind = "operand"
    /\ output.tag = "encoded"
    /\ output.val.tag = "Ok"
    /\ \E r \in {get_instruction_operand(ExecutorHolding(output.val.val[2]),
                                         SlotMask(input), output.val.val[1])} :
           output' = [tag |-> "decoded", val |-> output.val,
                      decoded |-> [tag |-> r.tag, val |-> r.val]]
    /\ UNCHANGED <<code, compiler, program_executor, error_popup_info, pending,
                   ticks, panic, frame, cc, input>>

\* the call get_instruction_operand(accepted_operand_types, operand) on a
\* nibble of the operands byte, at an instruction with the immediate number
Fetch ==
    /\ input.kind = "nibble"
    /\ output.tag = "pending"
    /\ \E r \in {get_instruction_operand(ExecutorHolding(<<input.number>>),
                                         SlotMask(input), input.nibble)} :
           output' = [tag |-> "fetched", val |-> [tag |-> r.tag, val |-> r.val]]
    /\ UNCHANGED <<code, compiler, program_executor, error_popup_info, pending,
                   ticks, panic, frame, cc, input>>

InitOperand ==
    /\ code = <<>>
    /\ compiler = BuildCompiler
    /\ program_executor = DefaultExecutor
    /\ error_popup_info = PopupNone
    /\ pending = 0
    /\ ticks = 0
    /\ panic = "none"
    /\ frame = "update"
    /\ cc = IdleCompile
    /\ input \in {[kind |-> "operand", operand |-> o, instruction |-> sl[1],
                   slot |-> sl[2]] : o \in OperandSamples, sl \in OperandSlots}
                 \cup {[kind |-> "nibble", nibble |-> n, number |-> v,
                        instruction |-> sl[1], slot |-> sl[2]] :
                          n \in 0..15, v \in {0, 43981}, sl \in OperandSlots}
    /\ output = NoOutput

NextOperand ==
    \/ Encode
    \/ Decode
    \/ Fetch

SpecOperand == InitOperand /\ [][NextOperand]_vars

(***************************************************************************)
(* The executor on its own: execute_instructions(MaxSteps) from the state  *)
(* Run leaves for the compiled SrcLoop, and from states with one           *)
(* instruction at curr_addr                                                *)
(***************************************************************************)
MaxSteps == 5

RegisterSamples == {0, 3, 32768, 65535}

ImmediateSamples == {1, 4095, 4096, 32768, 65535}

\* <<operands byte, immediate>>: no operand; r0, r1; (r0), (r1)+; (r0)+, r1;
\* sp; port or number 15 twice; r0, immediate; immediate
InstructionSamples ==
    {<<0, 0>>, <<1, 0>>, <<91, 0>>, <<161, 0>>, <<64, 0>>, <<255, 1>>}
        \cup {<<15, n>> : n \in ImmediateSamples}
        \cup {<<240, n>> : n \in ImmediateSamples}

AddressSamples == {0, 4092, 4093, 4094, 4095}

\* the opcodes of the table, the first one outside it and the last byte value
OpcodeSamples == (0..Len(INSTRUCTION_SET)) \cup {255}

\* the bytes of one instruction at address at; the bytes past the end of the
\* memory do not exist
InstructionImage(at, opcode, sample) ==
    LET bytes == <<opcode, sample[1], sample[2] \div U8, sample[2] % U8>>
    IN  [a \in {at + i : i \in {j \in 0..3 : at + j < MAX_PROGRAM_SIZE
                                             /\ bytes[j + 1] # 0}}
            |-> bytes[a - at + 1]]

\* a running executor about to execute the instruction at address at, with
\* r0 = a and r1 = MAX_PROGRAM_SIZE - 1
ExecutorAt(at, opcode, sample, a) ==
    [prepare_for_a_new_run(DefaultExecutor) EXCEPT
        !.memory = InstructionImage(at, opcode, sample),
        !.curr_addr = at,
        !.registers[0] = a,
        !.registers[1] = MAX_PROGRAM_SIZE - 1]

\* wrt p3, 0xFFFF / read r0, p3
SrcPorts ==
    <<"w", "r", "t", " ", "p", "3", ",", " ", "0", "x", "F", "F", "F", "F",
      "\n", "r", "e", "a", "d", " ", "r", "0", ",", " ", "p", "3">>

\* compile_code on SrcPorts followed by a click on Run
PortsStart ==
    RunClicked(DefaultExecutor, PopupNone, compile_code(BuildCompiler, SrcPorts).c).ex

\* the ports and the values of wrt p, v / read r0, p
PortSamples == 0..15
ValueSamples == {0, 1, 256, 32768, 43981}

\* wrt p, v / read r0, p as the assembler places them
PortImage(p, v) ==
    SetByte(SetByte(SetByte(SetByte(SetByte(SetByte(ZeroBytes,
        0, 11), 1, p * 16 + NUMBER_OPERAND_CODE), 2, v \div U8), 3, v % U8),
        4, 12), 5, p)

\* a running executor about to execute wrt p, v / read r0, p, with r0..r3
\* holding 7 and every display port q holding q + 1
PortStart(p, v) ==
    [prepare_for_a_new_run(DefaultExecutor) EXCEPT
        !.memory = PortImage(p, v),
        !.registers = [r \in 0..4 |-> IF r = 4 THEN MAX_PROGRAM_SIZE - 1 ELSE 7],
        !.display = [q \in 0..15 |-> q + 1]]

\* compile_code on SrcLoop followed by a click on Run
LoopStart ==
    RunClicked(DefaultExecutor, PopupNone, compile_code(BuildCompiler, SrcLoop).c).ex

\* the registers and the addresses of the copies mov (ra), (rb)+
CopyRegisters == {<<0, 1>>, <<1, 0>>, <<2, 4>>, <<4, 3>>}
CopyTargets == {256, 16, 513, MAX_PROGRAM_SIZE - 2}
CopySources == {512, 0, MAX_PROGRAM_SIZE - 2, MAX_PROGRAM_SIZE - 1}

\* a running executor about to execute mov (ra), (rb)+ at address 16, with
\* ra = target, rb = source, the word 0xABCD at source, 0x1122 at target,
\* r0..r3 otherwise 7 and every display port p holding p + 1
CopyStart(regs, target, source) ==
    [prepare_for_a_new_run(DefaultExecutor) EXCEPT
        !.memory =
            SetByte(SetByte(
            SetByte(SetByte(
            SetByte(SetByte(ZeroBytes, target, 17), (target + 1) % MAX_PROGRAM_SIZE, 34),
                    source, 171), (source + 1) % MAX_PROGRAM_SIZE, 205),
                    16, 1), 17, (5 + regs[1]) * 16 + 10 + regs[2]),
        !.curr_addr = 16,
        !.registers = [r \in 0..4 |->
                          IF r = regs[1] THEN target
                          ELSE IF r = regs[2] THEN source
                          ELSE IF r = 4 THEN MAX_PROGRAM_SIZE - 1 ELSE 7],
        !.display = [p \in 0..15 |-> p + 1]]

\* <<opcode, operands byte>>: read (r1), p0; add (r0)+, (r1); mov (r0)+, r2
FaultSamples == {<<12, 96>>, <<2, 166>>, <<1, 162>>}

\* a running executor about to execute the instruction at address 0, with
\* r0 = MAX_PROGRAM_SIZE - 2, r1 = MAX_PROGRAM_SIZE - 1 and every display
\* port p holding 257 * (p + 1)
FaultStart(sample) ==
    [ExecutorAt(0, sample[1], <<sample[2], 0>>, MAX_PROGRAM_SIZE - 2) EXCEPT
        !.display = [p \in 0..15 |-> 257 * (p + 1)]]

StepStarts ==
    {FaultStart(sample) : sample \in FaultSamples} \cup
    {LoopStart} \cup
    {ExecutorAt(at, opcode, sample, a) :
        at \in AddressSamples, opcode \in OpcodeSamples,
        sample \in InstructionSamples, a \in RegisterSamples}
    \cup {CopyStart(regs, target, source) :
             regs \in CopyRegisters, target \in CopyTargets, source \in CopySources}
    \cup {PortsStart}
    \cup {PortStart(p, v) : p \in PortSamples, v \in ValueSamples}

InitStep ==
    /\ code = SrcLoop
    /\ compiler = BuildCompiler
    /\ program_executor \in StepStarts
    /\ error_popup_info = PopupNone
    /\ pending = MaxSteps
    /\ ticks = 0
    /\ panic = "none"
    /\ frame = "update"
    /\ cc = IdleCompile
    /\ input = NoInput
    /\ output = NoOutput

NextStep == Tick

SpecStep == InitStep /\ [][NextStep]_vars

(***************************************************************************)
(* A frame of App::update with compile_code run one loop iteration at a    *)
(* time, a click on Run, and the steps that follow                         *)
(***************************************************************************)
\* mov r0, 1
SrcMov ==
    <<"m", "o", "v", " ", "r", "0", ",", " ", "1">>

\* nop / a: (a space behind) / jmp @a (a space before and behind) /
\* stop (a space behind)
SrcTrailing ==
    <<"n", "o", "p", "\n", "a", ":", " ", "\n", " ", "j", "m", "p", " ", "@",
      "a", " ", "\n", "s", "t", "o", "p", " ">>

\* the lines joined by '\n'
RECURSIVE JoinLines(_)
JoinLines(lines) ==
    IF Len(lines) = 1 THEN lines[1]
    ELSE lines[1] \o <<"\n">> \o JoinLines(Tail(lines))

\* the text with ";c" typed at the end of its line k
Commented(text, k) ==
    JoinLines([i \in 1..Len(split(text, "\n")) |->
                  IF i = k THEN split(text, "\n")[i] \o <<";", "c">>
                  ELSE split(text, "\n")[i]])

\* mov r0, 7 / mov (r0), r1 / mov r2, 9 / stop: the second line stores 0 into
\* the operands byte of the third
SrcSelfModifying ==
    <<"m", "o", "v", " ", "r", "0", ",", " ", "7", "\n", "m", "o", "v", " ",
      "(", "r", "0", ")", ",", " ", "r", "1", "\n", "m", "o", "v", " ", "r",
      "2", ",", " ", "9", "\n", "s", "t", "o", "p">>

ProgramSources ==
    {SrcStop, SrcMov, SrcPorts, SrcLoop, SrcOperands, SrcTrailing, SrcDefault,
     SrcSelfModifying}

CommentedBases == {SrcStop, SrcLoop, SrcTrailing}

\* the text with the letters at the positions i with i % 3 # skip typed in
\* upper case (skip = 3: every letter)
Recased(text, skip) ==
    [i \in 1..Len(text) |->
        IF i % 3 # skip /\ text[i] \in LowerLetters
        THEN CHOOSE u \in UpperLetters : LowerOf[u] = text[i]
        ELSE text[i]]

RecasedBases == {SrcLoop, SrcPorts, SrcErrors, SrcTrailing}

\* the texts in the editor: input names the text a comment was typed into,
\* or the text that was typed again in another case
ProgramStarts ==
    {[code |-> src, input |-> NoInput] : src \in ProgramSources}
    \cup {[code |-> Recased(src, skip),
           input |-> [kind |-> "case", base |-> src, line |-> skip]] :
             src \in RecasedBases, skip \in 0..3}
    \cup UNION {{[code |-> Commented(src, k),
                  input |-> [kind |-> "comment", base |-> src, line |-> k]] :
                    k \in 1..Len(split(src, "\n"))} : src \in CommentedBases}

InitProgram ==
    /\ \E start \in ProgramStarts :
           /\ code = start.code
           /\ input = start.input
    /\ compiler = BuildCompiler
    /\ program_executor = DefaultExecutor
    /\ error_popup_info = PopupNone
    /\ pending = 0
    /\ ticks = 0
    /\ panic = "none"
    /\ frame = "update"
    /\ cc = IdleCompile
    /\ output = NoOutput

\* App::update calls self.compiler.compile_code(&self.code)
UpdateCompiles ==
    /\ frame = "update"
    /\ pending = 0
    /\ CompileCall

\* compile_code returns to App::update, which goes on to the buttons
CompileReturn ==
    /\ panic = "none"
    /\ frame = "update"
    /\ cc.pc = "done"
    /\ cc' = IdleCompile
    /\ frame' = "buttons"
    /\ UNCHANGED <<code, compiler, program_executor, error_popup_info, pending,
                   ticks, panic, input, output>>

NextProgram ==
    \/ UpdateCompiles
    \/ LabelPass
    \/ Emit
    \/ Patch
    \/ CompileReturn
    \/ ClickRun
    \/ NoButton
    \/ Tick

SpecProgram == InitProgram /\ [][NextProgram]_vars

(***************************************************************************)
(* The claims                                                              *)
(***************************************************************************)

\* C1: after Run and any sequence of steps on any memory image, curr_addr is
\* in [0, 4096) and every register is a 16-bit value.
C1_BoundedState ==
    /\ program_executor.curr_addr \in 0..(MAX_PROGRAM_SIZE - 1)
    /\ \A r \in 0..4 : program_executor.registers[r] \in 0..(U16 - 1)

\* an add r0, immediate at address 4092 was executed and curr_addr wrapped to 0
C1_Witness ==
    /\ ticks = 1
    /\ output.tag = "Ok"
    /\ ByteAt(program_executor.memory, MAX_PROGRAM_SIZE - 4) = 2
    /\ ByteAt(program_executor.memory, MAX_PROGRAM_SIZE - 3) = 15
    /\ program_executor.curr_addr = 0

\* C2: halt is sticky: a step taken while has_finished is true leaves
\* registers, program_state_reg, memory, display, curr_addr and has_finished
\* (the whole executor) unchanged.
C2_HaltIsSticky ==
    [][(Tick /\ program_executor.has_finished)
          => program_executor' = program_executor]_vars

\* a step was taken on a halted executor
C2_Witness ==
    /\ output.tag = "Ok"
    /\ output.halted
    /\ program_executor.has_finished
    /\ ticks >= 2

\* C3: every step of a running executor executes one instruction or returns
\* one of InvalidInstruction, InvalidOperand, InvalidAddress; an access
\* outside the memory raises InvalidAddress and never aborts the executor.
C3_StepNeverAborts ==
    \/ output.tag \in {"pending", "Ok"}
    \/ /\ output.tag = "Err"
       /\ output.val.kind \in {"InvalidInstruction", "InvalidOperand", "InvalidAddress"}

\* C4: the step that faults returns the error and leaves has_finished true;
\* a halted executor returns no error, and only a click (a reset), never a
\* step, makes has_finished false again: at most one runtime error per run.
C4_StopsOnFirstError ==
    [][/\ Tick => /\ output'.tag = "Err" => program_executor'.has_finished
                  /\ program_executor.has_finished =>
                        /\ output'.tag = "Ok"
                        /\ program_executor'.has_finished
       /\ (program_executor.has_finished /\ ~program_executor'.has_finished)
             => frame = "buttons"]_vars

\* a step faulted: it returned a runtime error, the executor is halted and
\* the error is in the popup
C4_Witness ==
    /\ output.tag = "Err"
    /\ ~output.halted
    /\ program_executor.has_finished
    /\ error_popup_info = PopupRuntimeError(output.val)

\* C5: compile_code never throws, whatever the source text, also when a line
\* with an @label reference is rejected and followed by instructions, and
\* when the emitted code reaches the end of the image.
C5_CompileNeverThrows == panic = "none"

\* the size of the instruction the emit loop is about to place; 0 when the
\* line is a label, is empty or is rejected
PendingSize ==
    IF cc.pc # "emit" THEN 0
    ELSE IF cc.i > Len(cc.lines) THEN 0
    ELSE
    With(preprocess_line(cc.lines[cc.i]), LAMBDA line :
    IF ends_with(line, ":") THEN 0
    ELSE
    With(process_instruction([compiler EXCEPT !.line_i = cc.i - 1], line),
         LAMBDA binary :
    IF binary.tag # "Ok" THEN 0
    ELSE IF binary.val = <<>> THEN 0
    ELSE IF binary.val[2] = <<>> THEN 2 ELSE 4))

\* C6: when the instruction of a line would exceed the 4096 bytes
\* (addr + size > 4096), the emit loop records OutOfMemory for the line,
\* writes no byte for it and goes on to the next line.
C6_OutOfMemoryRecorded ==
    [][(/\ Emit
        /\ PendingSize > 0
        /\ Last(compiler.line_addresses) + PendingSize > MAX_PROGRAM_SIZE)
          => /\ panic' = "none"
             /\ compiler'.program = compiler.program
             /\ cc'.i = cc.i + 1
             /\ \E k \in 1..Len(cc'.errors) :
                    cc'.errors[k].error = OutOfMemory(cc.i - 1)]_vars

\* text without its leading '-'
Unsigned(text) == IF starts_with(text, <<"-">>) THEN Tail(text) ELSE text

\* an optional '-' followed by decimal digits
IsDecimalNumeral(text) ==
    /\ Unsigned(text) # <<>>
    /\ \A i \in 1..Len(Unsigned(text)) : Unsigned(text)[i] \in DecDigits

\* an optional '-' followed by 0x and hexadecimal digits
IsHexNumeral(text) ==
    /\ Len(Unsigned(text)) > 2
    /\ starts_with(Unsigned(text), <<"0", "x">>)
    /\ \A i \in 3..Len(Unsigned(text)) :
          Unsigned(text)[i] \in DecDigits \cup HexLetters

\* the number that digits denote in base, the first digit the most
\* significant, modulo 2^16
RECURSIVE PlaceValue(_, _)
PlaceValue(digits, base) ==
    IF digits = <<>> THEN 0
    ELSE (PlaceValue(SubSeq(digits, 1, Len(digits) - 1), base) * base
          + to_digit(digits[Len(digits)], base)) % U16

\* the 16-bit word a numeral denotes
Denoted(text) ==
    LET magnitude == IF IsHexNumeral(text)
                     THEN PlaceValue(SubSeq(Unsigned(text), 3, Len(Unsigned(text))), 16)
                     ELSE PlaceValue(Unsigned(text), 10)
    IN  IF starts_with(text, <<"-">>) THEN (U16 - magnitude) % U16 ELSE magnitude

\* C7: wrapping_parse reads the digits most significant first: for a decimal
\* numeral and for a 0x numeral, with an optional '-', it returns the
\* denoted integer modulo 2^16.
C7_MostSignificantFirst ==
    (/\ output.tag = "parsed"
     /\ IsDecimalNumeral(input.text) \/ IsHexNumeral(input.text))
        => output.val = <<Denoted(input.text)>>

\* bit i of x
Bit(x, i) == (x \div 2^i) % 2

\* a * b modulo 2^16, by doubling
RECURSIVE MulMod(_, _)
MulMod(a, b) ==
    IF b = 0 THEN 0
    ELSE ((IF b % 2 = 1 THEN a ELSE 0) + 2 * MulMod(a, b \div 2)) % U16

\* r is the result of the operation of opcode on a and b
IsResult(opcode, a, b, r) ==
    /\ r \in 0..(U16 - 1)
    /\ CASE opcode = 2 -> r = (a + b) % U16
         [] opcode = 3 -> (r + b) % U16 = a
         [] opcode = 4 -> r = MulMod(a, b)
         [] opcode = 6 -> \A i \in 0..15 : Bit(r, i) = Bit(a, i) * Bit(b, i)
         [] opcode = 7 -> \A i \in 0..15 :
                             Bit(r, i) = IF Bit(a, i) + Bit(b, i) > 0 THEN 1 ELSE 0
         [] opcode = 8 -> \A i \in 0..15 : Bit(r, i) = (Bit(a, i) + Bit(b, i)) % 2

\* the running executor is at an encoded add, sub, mul, and, or or xor of
\* r0 and an immediate
AtImmediateOnR0 ==
    /\ ~program_executor.has_finished
    /\ program_executor.curr_addr + 3 < MAX_PROGRAM_SIZE
    /\ ByteAt(program_executor.memory, program_executor.curr_addr) \in {2, 3, 4, 6, 7, 8}
    /\ ByteAt(program_executor.memory, program_executor.curr_addr + 1) = 15

\* C8: wrap law: executing add r0, b with r0 = a leaves r0 = (a + b) mod 2^16,
\* advances curr_addr by 4 modulo 4096 and changes no other register, memory
\* byte or display port; likewise sub, mul, and, or, xor.
C8_WrapLaw ==
    [][(Tick /\ AtImmediateOnR0)
          => /\ IsResult(ByteAt(program_executor.memory, program_executor.curr_addr),
                         program_executor.registers[0],
                         from_be_bytes(
                             ByteAt(program_executor.memory,
                                    program_executor.curr_addr + 2),
                             ByteAt(program_executor.memory,
                                    program_executor.curr_addr + 3)),
                         program_executor'.registers[0])
             /\ program_executor' =
                   [program_executor EXCEPT
                       !.registers[0] = program_executor'.registers[0],
                       !.curr_addr = (@ + 4) % MAX_PROGRAM_SIZE]]_vars

\* add r0, 1 at address 0 was executed with r0 = 65535: r0 is 0
C8_Witness ==
    /\ ticks = 1
    /\ output.tag = "Ok"
    /\ ByteAt(program_executor.memory, 0) = 2
    /\ ByteAt(program_executor.memory, 1) = 15
    /\ ByteAt(program_executor.memory, 2) = 0
    /\ ByteAt(program_executor.memory, 3) = 1
    /\ program_executor.registers[0] = 0
    /\ program_executor.curr_addr = 4

\* the mask bit of the kind of an operand
MaskOf(operand) ==
    CASE operand.kind = "Reg" -> REG_MASK
      [] operand.kind = "Addr" -> ADDR_MASK
      [] operand.kind = "AddrInc" -> ADDR_INC_MASK
      [] operand.kind = "Port" -> PORT_MASK
      [] operand.kind = "Number" -> NUMBER_MASK

\* C9: round trip of the nibble encoding: process_operand accepts exactly the
\* operands the mask of the slot admits, and what it produces decodes in the
\* executor, under the same mask, to the same operand; so does Port(15).
C9_RoundTrip ==
    /\ output.tag = "encoded" =>
          (output.val.tag = "Ok" <=> Accepts(SlotMask(input), MaskOf(input.operand)))
    /\ output.tag = "decoded" =>
          output.decoded = [tag |-> "Ok", val |-> input.operand]

\* Port(15) was encoded as the nibble NUMBER_OPERAND_CODE and decoded
C9_Witness ==
    /\ output.tag = "decoded"
    /\ input.operand = Port(15)
    /\ output.val.val[1] = NUMBER_OPERAND_CODE
    /\ output.decoded.val = Port(15)

\* the program of SrcLoop
LoopImage == compile_code(BuildCompiler, SrcLoop).c.program

\* C10 (as amended): for SrcLoop compiled and started with Run, after
\* N = 1 + 2k steps registers[0] is (k - 1) mod 2^16: 65535 after the mov,
\* and one more after each add.
C10_LoopCounter ==
    \A k \in 0..MaxSteps :
        (program_executor.memory = LoopImage /\ ticks = 1 + 2 * k)
            => program_executor.registers[0] = (k + U16 - 1) % U16

\* five steps of the loop were taken: mov, add, jmp, add, jmp
C10_Witness ==
    /\ program_executor.memory = LoopImage
    /\ ticks = 5
    /\ program_executor.registers[0] = 1
    /\ program_executor.curr_addr = 4

\* C10 (as stated): after N = 1 + 2k steps registers[0] is k.
C10_AsStated ==
    \A k \in 0..MaxSteps :
        (program_executor.memory = LoopImage /\ ticks = 1 + 2 * k)
            => program_executor.registers[0] = k

\* the running executor is at an encoded mov (ra), (rb)+ of two distinct
\* registers whose words lie inside the memory and do not overlap
AtCopy ==
    /\ ~program_executor.has_finished
    /\ program_executor.curr_addr + 1 < MAX_PROGRAM_SIZE
    /\ ByteAt(program_executor.memory, program_executor.curr_addr) = 1
    /\ LET operands_byte ==
               ByteAt(program_executor.memory, program_executor.curr_addr + 1)
           ra == (operands_byte \div 16) - 5
           rb == (operands_byte % 16) - 10
       IN  /\ ra \in 0..4
           /\ rb \in 0..4
           /\ ra # rb
           /\ LET A == program_executor.registers[ra]
                  B == program_executor.registers[rb]
              IN  /\ A + 1 < MAX_PROGRAM_SIZE
                  /\ B + 1 < MAX_PROGRAM_SIZE
                  /\ A + 1 < B \/ B + 1 < A

\* C11: post-increment copy: mov (ra), (rb)+ with ra = A, rb = B leaves
\* memory[A..A+2] equal to the old memory[B..B+2], rb = B + 2 and ra = A,
\* advances curr_addr by 2 and changes no other register, memory byte or
\* display port.
C11_PostIncrementCopy ==
    [][(Tick /\ AtCopy)
          => LET operands_byte ==
                     ByteAt(program_executor.memory, program_executor.curr_addr + 1)
                 ra == (operands_byte \div 16) - 5
                 rb == (operands_byte % 16) - 10
                 A == program_executor.registers[ra]
                 B == program_executor.registers[rb]
                 old == program_executor.memory
             IN  program_executor' =
                    [program_executor EXCEPT
                        !.memory = SetByte(SetByte(old, A, ByteAt(old, B)),
                                           A + 1, ByteAt(old, B + 1)),
                        !.registers[rb] = B + 2,
                        !.curr_addr = (@ + 2) % MAX_PROGRAM_SIZE]]_vars

\* mov (r0), (r1)+ was executed with r0 = 0x100, r1 = 0x200 and 0xABCD at
\* 0x200: 0xABCD is at 0x100, r1 is 0x202, r0 is 0x100
C11_Witness ==
    /\ ticks = 1
    /\ output.tag = "Ok"
    /\ ByteAt(program_executor.memory, 17) = 91
    /\ program_executor.registers[0] = 256
    /\ program_executor.registers[1] = 514
    /\ ByteAt(program_executor.memory, 256) = 171
    /\ ByteAt(program_executor.memory, 257) = 205
    /\ ByteAt(program_executor.memory, 512) = 171
    /\ ByteAt(program_executor.memory, 513) = 205
    /\ program_executor.curr_addr = 18

\* C12: compile_code is deterministic and history-free: whatever the
\* Compiler compiled before, after compile_code(code) its program and its
\* ordered error list are those a freshly built Compiler gets for code.
C12_HistoryFree ==
    frame = "buttons" =>
        \A fresh \in {compile_code(BuildCompiler, code)} :
            /\ panic = fresh.panic
            /\ compiler.program = fresh.c.program
            /\ compiler.errors = fresh.c.errors

\* jmp sp was compiled by the Compiler that had compiled the text of
\* App::default(), whose program is in the memory
C12_Witness ==
    /\ frame = "buttons"
    /\ code = SrcJmpSp
    /\ ByteAt(program_executor.memory, 8) # 0
    /\ compiler.program = SetByte(SetByte(ZeroBytes, 0, 10), 1, 64)
    /\ compiler.errors = <<>>

\* C13: comment transparency: typing ';' and a comment at the end of any
\* line of a source leaves the compiled program image unchanged.
C13_CommentTransparency ==
    (cc.pc = "done" /\ input.kind = "comment")
        => compiler.program = compile_code(BuildCompiler, input.base).c.program

\* C14: right after a click on Run, or on Step over while halted, with an
\* error-free compile and before any instruction executes, curr_addr = 0,
\* SP = 0x0FFF, has_finished = false and memory is the compiled program;
\* r0..r3 and display keep their values.
C14_ResetOnRun ==
    [][((ClickRun \/ (ClickStepOver /\ program_executor.has_finished))
            /\ compiler.errors = <<>>)
          => /\ program_executor'.curr_addr = 0
             /\ program_executor'.registers[4] = MAX_PROGRAM_SIZE - 1
             /\ ~program_executor'.has_finished
             /\ program_executor'.memory = compiler.program
             /\ \A r \in 0..3 :
                    program_executor'.registers[r] = program_executor.registers[r]
             /\ program_executor'.display = program_executor.display]_vars

\* the program was started again with r0 = 65535 left by the run before
C14_Witness ==
    /\ frame = "update"
    /\ ticks = 0
    /\ ~program_executor.has_finished
    /\ program_executor.curr_addr = 0
    /\ program_executor.registers[0] = U16 - 1
    /\ program_executor.memory = compiler.program
    /\ program_executor.memory # ZeroBytes

\* a click on Step over that tries the reset: the executor is halted or is
\* not in debug mode
StepTriesReset ==
    /\ ClickStepOver
    /\ program_executor.has_finished \/ ~program_executor.is_in_debug_mode

\* C15 (as amended): the memory is overwritten from the program image only
\* by Build, Run or Step over, and only when the error list is empty; when
\* the compile has errors, Build, Run and a Step over made while halted or
\* outside debug mode leave memory unchanged and has_finished true, so that
\* the steps of the frame execute nothing; what happens at the start of
\* App::update (the popup, compile_code, the lamps, the editor) leaves memory
\* unchanged.  (A Step over made in debug mode while not halted does not
\* look at the error list.)
C15_LoadOnlyWithoutErrors ==
    [][/\ (frame = "buttons" /\ program_executor'.memory # program_executor.memory)
             => /\ ClickBuild \/ ClickRun \/ ClickStepOver
                /\ compiler.errors = <<>>
                /\ program_executor'.memory = compiler.program
       /\ (frame = "update" /\ pending = 0)
             => program_executor'.memory = program_executor.memory
       /\ (compiler.errors # <<>> /\ (ClickBuild \/ ClickRun \/ StepTriesReset))
             => /\ program_executor'.memory = program_executor.memory
                /\ program_executor'.has_finished]_vars

\* a click found the compile of jmp @nowhere failed: the popup shows the
\* error, the executor is halted and holds the program loaded before
C15_Witness ==
    /\ code = SrcNowhere
    /\ frame = "update"
    /\ error_popup_info.kind = "CompilationError"
    /\ program_executor.has_finished
    /\ ByteAt(program_executor.memory, 8) # 0
    /\ compiler.program # program_executor.memory

\* C15 (as stated): when the compile has errors, Build, Run and every Step
\* over leave memory unchanged and has_finished true.
C15_AsStated ==
    [][(compiler.errors # <<>> /\ (ClickBuild \/ ClickRun \/ ClickStepOver))
          => /\ program_executor'.memory = program_executor.memory
             /\ program_executor'.has_finished]_vars

\* C16: Clear registers sets r0..r3 and program_state_reg to 0 and SP to
\* 0x0FFF and leaves memory, display, curr_addr, has_finished and
\* is_in_debug_mode unchanged, whether the executor is halted, running or
\* in debug mode.
C16_ClearRegisters ==
    [][ClickClearRegisters
          => program_executor' =
                [program_executor EXCEPT
                    !.registers = [r \in 0..4 |->
                                      IF r = 4 THEN MAX_PROGRAM_SIZE - 1 ELSE 0],
                    !.program_state_reg = 0]]_vars

\* the registers of the running text of App::default() were cleared after
\* its first two instructions, which leave r1 = 22
C16_Witness ==
    /\ ~program_executor.has_finished
    /\ ~program_executor.is_in_debug_mode
    /\ ticks = 2
    /\ program_executor.curr_addr = 8
    /\ ByteAt(program_executor.memory, 7) = 22
    /\ \A r \in 0..3 : program_executor.registers[r] = 0

\* C17: debug mode disables auto-stepping.  In a frame whose buttons leave
\* is_in_debug_mode true, execute_instructions iterates only in the execute
\* branch of a Step over; a frame whose Step over enters debug mode (the
\* executor was halted or was running) executes no instruction and ends
\* with curr_addr = 0 and memory equal to the compiled image.
C17_NoAutoStepInDebug ==
    [][/\ (frame = "buttons" /\ program_executor'.is_in_debug_mode /\ pending' > 0)
             => /\ ClickStepOver
                /\ StepOverClicked(program_executor, error_popup_info, compiler).runs
       /\ (StepTriesReset /\ program_executor'.is_in_debug_mode)
             => /\ pending' = 0
                /\ program_executor'.curr_addr = 0
                /\ program_executor'.memory = compiler.program]_vars

\* the executor is about to execute a stop
AtStop ==
    /\ pending > 0
    /\ ~program_executor.has_finished
    /\ ByteAt(program_executor.memory, program_executor.curr_addr) = 13

\* C18: the source `stop` compiles to program[0] = 13 and every other byte
\* 0, with no errors; executing a stop sets has_finished and changes nothing
\* else of the executor, so that the compiled `stop` halts at its first step
\* with curr_addr = 0.
C18_Stop ==
    [][/\ (code = SrcStop /\ cc.pc # "done" /\ cc'.pc = "done")
             => /\ compiler'.program = SetByte(ZeroBytes, 0, 13)
                /\ compiler'.errors = <<>>
       /\ (AtStop /\ Tick)
             => program_executor' = [program_executor EXCEPT !.has_finished = TRUE]
       /\ (code = SrcStop /\ Tick)
             => /\ program_executor'.has_finished
                /\ program_executor'.curr_addr = 0
                /\ ticks = 0 => AtStop]_vars

\* the compiled `stop` was run and has halted at its first step
C18_Witness ==
    /\ code = SrcStop
    /\ ticks = 1
    /\ output.tag = "Ok"
    /\ program_executor.has_finished
    /\ program_executor.curr_addr = 0
    /\ program_executor.memory = SetByte(ZeroBytes, 0, 13)
    /\ program_executor.registers = DefaultExecutor.registers

\* the operands of the line the emit loop is about to compile, as
\* process_instruction parses them
PendingWords == splitn2(preprocess_line(cc.lines[cc.i]), " ")

PendingOperands ==
    ParseOperands([compiler EXCEPT !.line_i = cc.i - 1],
                  IF Len(PendingWords) = 2 THEN split(PendingWords[2], ",")
                  ELSE <<>>).val

\* the nibble that stands for an operand in the second byte
Nibble(operand) ==
    CASE operand.kind = "Reg" -> operand.val
      [] operand.kind = "Addr" -> operand.val + 5
      [] operand.kind = "AddrInc" -> operand.val + 10
      [] operand.kind = "Port" -> operand.val
      [] operand.kind = "Number" -> 15

\* [opcode, (op1 << 4) | op2] and, with an immediate, its high and low byte
Encoded(program, addr, opcode, operands) ==
    LET nibble(i) == IF i <= Len(operands) THEN Nibble(operands[i]) ELSE 0
        immediate == SelectSeq(operands, LAMBDA o : o.kind = "Number")
        two == SetByte(SetByte(program, addr, opcode), addr + 1,
                       nibble(1) * 16 + nibble(2))
    IN  IF immediate = <<>> THEN two
        ELSE SetByte(SetByte(two, addr + 2, immediate[1].val \div 256),
                     addr + 3, immediate[1].val % 256)

\* C19: an instruction with an immediate operand is placed as the 4 bytes
\* [opcode, (op1 << 4) | op2 with nibble 15 for the Number operand, high
\* byte, low byte of the immediate], every other assembled instruction as
\* the 2 bytes [opcode, (op1 << 4) | op2] with unused nibbles 0; `mov r0, 1`
\* assembles to [1, 15, 0, 1, 0, ...] and after Run and one step
\* registers[0] = 1 and curr_addr = 4.
C19_Encoding ==
    [][/\ (/\ Emit
           /\ PendingSize > 0
           /\ Last(compiler.line_addresses) + PendingSize <= MAX_PROGRAM_SIZE)
             => /\ PendingSize =
                      IF \E i \in 1..Len(PendingOperands) :
                            PendingOperands[i].kind = "Number"
                      THEN 4 ELSE 2
                /\ compiler'.program =
                      Encoded(compiler.program, Last(compiler.line_addresses),
                              instruction_codes(PendingWords[1])[1], PendingOperands)
                /\ Last(compiler'.line_addresses) =
                      Last(compiler.line_addresses) + PendingSize
       /\ (code = SrcMov /\ cc.pc # "done" /\ cc'.pc = "done")
             => /\ compiler'.program =
                      SetByte(SetByte(SetByte(ZeroBytes, 0, 1), 1, 15), 3, 1)
                /\ compiler'.errors = <<>>
       /\ (code = SrcMov /\ ticks = 0 /\ Tick)
             => /\ program_executor'.registers[0] = 1
                /\ program_executor'.curr_addr = 4]_vars

\* `mov r0, 1` was assembled, loaded by Run and stepped once
C19_Witness ==
    /\ code = SrcMov
    /\ ticks = 1
    /\ program_executor.memory =
          SetByte(SetByte(SetByte(ZeroBytes, 0, 1), 1, 15), 3, 1)
    /\ program_executor.registers[0] = 1
    /\ program_executor.curr_addr = 4
    /\ ~program_executor.has_finished

\* C20: for a port p and a 16-bit value v, running wrt p, v and then
\* read r0, p leaves display[p] = v and registers[0] = v, every other
\* display port and register unchanged and curr_addr = 6; so does the
\* assembled text wrt p3, 0xFFFF / read r0, p3.
C20_PortWriteRead ==
    /\ \A p \in PortSamples, v \in ValueSamples :
          (ticks = 2 /\ program_executor.memory = PortImage(p, v))
             => program_executor =
                   [PortStart(p, v) EXCEPT !.display[p] = v,
                                           !.registers[0] = v,
                                           !.curr_addr = 6]
    /\ PortsStart.memory = PortImage(3, 65535)
    /\ (ticks = 2 /\ program_executor.memory = PortsStart.memory)
          => program_executor =
                [PortsStart EXCEPT !.display[3] = 65535,
                                   !.registers[0] = 65535,
                                   !.curr_addr = 6]

\* wrt p15, 0xABCD / read r0, p15 has run
C20_Witness ==
    /\ ticks = 2
    /\ program_executor.memory = PortImage(15, 43981)
    /\ program_executor.display[15] = 43981
    /\ program_executor.display[14] = 15
    /\ program_executor.registers[0] = 43981
    /\ program_executor.curr_addr = 6

\* the names of the label lines of a text
DefinedLabels(text) ==
    LET lines == split(to_lowercase(text), "\n")
    IN  {SubSeq(preprocess_line(lines[i]), 1, Len(preprocess_line(lines[i])) - 1) :
            i \in {j \in DOMAIN lines : ends_with(preprocess_line(lines[j]), ":")}}

\* C21: a reference to a label defined nowhere yields exactly one
\* NoLabelWithSuchName per mention, with the line of the mention and the
\* name, and no other error for that line; `jmp @nowhere` yields exactly the
\* one error NoLabelWithSuchName{line: 0, name: "nowhere"}.
C21_NoLabelWithSuchName ==
    cc.pc = "done" =>
        /\ \A k \in DOMAIN compiler.label_mentions_in_program :
              LET mention == compiler.label_mentions_in_program[k]
                  expected == NoLabelWithSuchName(mention[2], mention[1])
              IN  mention[1] \notin DefinedLabels(code) =>
                     /\ Cardinality({i \in DOMAIN compiler.errors :
                                       compiler.errors[i].error = expected})
                          = Cardinality({j \in DOMAIN compiler.label_mentions_in_program :
                               compiler.label_mentions_in_program[j][1] = mention[1]
                               /\ compiler.label_mentions_in_program[j][2] = mention[2]})
                     /\ \A i \in DOMAIN compiler.errors :
                           compiler.errors[i].error.line = mention[2]
                              => compiler.errors[i].error = expected
        /\ code = SrcNowhere =>
              /\ Len(compiler.errors) = 1
              /\ compiler.errors[1].error = NoLabelWithSuchName(0, <<"n", "o", "w", "h", "e", "r", "e">>)

\* the ranges and the kinds of an error list, in order
RangesAndKinds(errors) ==
    [i \in DOMAIN errors |-> <<errors[i].range, errors[i].error.kind>>]

\* C22: two sources that differ only in the case of ASCII letters compile to
\* the same program image and to error lists with the same ranges and error
\* kinds in the same order.
C22_CaseInsensitive ==
    (cc.pc = "done" /\ input.kind = "case") =>
        \A base \in {compile_code(BuildCompiler, input.base)} :
            /\ panic = base.panic
            /\ compiler.program = base.c.program
            /\ RangesAndKinds(compiler.errors) = RangesAndKinds(base.c.errors)

\* SrcErrors typed all in upper case has been compiled, with errors and a
\* non-empty image
C22_Witness ==
    /\ cc.pc = "done"
    /\ input.kind = "case"
    /\ input.base = SrcErrors
    /\ code = Recased(SrcErrors, 3)
    /\ code # to_lowercase(code)
    /\ \E i \in DOMAIN compiler.errors : compiler.errors[i].error.kind = "NoLabelWithSuchName"
    /\ compiler.program # ZeroBytes

\* the first operand nibble and the second of the instruction at curr_addr
FirstNibble ==
    ByteAt(program_executor.memory, program_executor.curr_addr + 1) \div 16

SecondNibble ==
    ByteAt(program_executor.memory, program_executor.curr_addr + 1) % 16

\* the running executor is at mov (rN)+, rM, add (rN)+, rM (N # M) or
\* not (rN)+, with the word rN points to inside the memory
AtPostIncrementWrite ==
    /\ pending > 0
    /\ ~program_executor.has_finished
    /\ program_executor.curr_addr + 1 < MAX_PROGRAM_SIZE
    /\ FirstNibble \in 10..14
    /\ program_executor.registers[FirstNibble - 10] + 1 < MAX_PROGRAM_SIZE
    /\ \/ ByteAt(program_executor.memory, program_executor.curr_addr) = 9
       \/ /\ ByteAt(program_executor.memory, program_executor.curr_addr) \in {1, 2}
          /\ SecondNibble \in 0..4
          /\ SecondNibble # FirstNibble - 10

\* C23: a write through a post-increment operand writes, then increments:
\* mov (rN)+, src with rN = A stores the source value big-endian at
\* memory[A..A+2], leaves rN = A + 2 and changes no other memory byte;
\* not (rN)+ and add (rN)+, src replace the word at the address A that rN
\* held before the instruction and increment rN by exactly 2.
C23_WriteThenIncrement ==
    [][(Tick /\ AtPostIncrementWrite)
          => LET opcode == ByteAt(program_executor.memory, program_executor.curr_addr)
                 rn == FirstNibble - 10
                 A == program_executor.registers[rn]
                 old == program_executor.memory
                 word == from_be_bytes(ByteAt(old, A), ByteAt(old, A + 1))
                 result == CASE opcode = 1 -> program_executor.registers[SecondNibble]
                             [] opcode = 2 ->
                                   (word + program_executor.registers[SecondNibble]) % U16
                             [] opcode = 9 -> U16 - 1 - word
             IN  program_executor' =
                    [program_executor EXCEPT
                        !.memory = SetByte(SetByte(old, A, result \div U8),
                                           A + 1, result % U8),
                        !.registers[rn] = (A + 2) % U16,
                        !.curr_addr = (@ + 2) % MAX_PROGRAM_SIZE]]_vars

\* the running executor is at div rN, rM with rM = 0
AtDivByZero ==
    /\ pending > 0
    /\ ~program_executor.has_finished
    /\ program_executor.curr_addr + 1 < MAX_PROGRAM_SIZE
    /\ ByteAt(program_executor.memory, program_executor.curr_addr) = 5
    /\ FirstNibble \in 0..4
    /\ SecondNibble \in 0..4
    /\ program_executor.registers[SecondNibble] = 0

\* C24: div dst, src with a source that evaluates to 0 completes the step
\* with a defined outcome: a value written to dst, or a runtime error
\* returned with has_finished set; the executor does not abort.
C24_DivByZeroDefined ==
    [][(Tick /\ AtDivByZero)
          => /\ panic' = "none"
             /\ \/ output'.tag = "Ok"
                \/ output'.tag = "Err" /\ program_executor'.has_finished]_vars

\* the text behind the optional '-'
Remainder(text) == IF starts_with(text, <<"-">>) THEN Tail(text) ELSE text

\* C25: wrapping_parse returns None for the empty remainder ('', '-', '0x',
\* '-0x') and for a text whose remainder behind the optional '-' does not
\* start with 0x and holds a character that is not a decimal digit ('a',
\* 'ff', '1f').
C25_RejectsNonLiterals ==
    (/\ output.tag = "parsed"
     /\ \/ Remainder(input.text) \in {<<>>, <<"0", "x">>}
        \/ /\ ~starts_with(Remainder(input.text), <<"0", "x">>)
           /\ \E i \in DOMAIN Remainder(input.text) :
                 Remainder(input.text)[i] \notin DecDigits)
        => output.val = <<>>

\* the operand the precedence Port, Number, AddrInc, Addr, Reg gives a nibble
\* under a mask, <<>> when it gives none
Precedence(mask, nibble, immediate) ==
    IF Accepts(mask, PORT_MASK) THEN <<Port(nibble)>>
    ELSE IF Accepts(mask, NUMBER_MASK) /\ nibble = 15 THEN <<Number(immediate)>>
    ELSE IF Accepts(mask, ADDR_INC_MASK) /\ nibble \in 10..14 THEN <<AddrInc(nibble - 10)>>
    ELSE IF Accepts(mask, ADDR_MASK) /\ nibble \in 5..9 THEN <<Addr(nibble - 5)>>
    ELSE IF Accepts(mask, REG_MASK) /\ nibble \in 0..4 THEN <<Reg(nibble)>>
    ELSE <<>>

\* C26: for every mask of the table and every nibble 0..15 the decoded
\* operand is Port(nibble) when the slot accepts Port; else Number(immediate)
\* when Number is accepted and the nibble is 15; else AddrInc(nibble - 10)
\* for 10..14, Addr(nibble - 5) for 5..9, Reg(nibble) for 0..4 when the kind
\* is accepted; else the step fails with InvalidOperand.  The nibble 15 in a
\* slot that accepts neither Number nor Port yields InvalidOperand.
C26_DecodePrecedence ==
    output.tag = "fetched" =>
        LET expected == Precedence(SlotMask(input), input.nibble, input.number)
        IN  /\ expected # <<>> => output.val = [tag |-> "Ok", val |-> expected[1]]
            /\ expected = <<>> =>
                  output.val = [tag |-> "Err", val |-> InvalidOperand(0, input.nibble)]
            /\ (/\ input.nibble = 15
                /\ ~Accepts(SlotMask(input), NUMBER_MASK)
                /\ ~Accepts(SlotMask(input), PORT_MASK))
                  => output.val.tag = "Err" /\ output.val.val.kind = "InvalidOperand"

\* the nibble 15 was fetched for the first operand of mov
C26_Witness ==
    /\ output.tag = "fetched"
    /\ input.instruction = 1
    /\ input.slot = 1
    /\ input.nibble = 15
    /\ output.val = [tag |-> "Err", val |-> InvalidOperand(0, 15)]

\* the running executor is at a byte that is no opcode of the table
AtFetchFault ==
    /\ pending > 0
    /\ ~program_executor.has_finished
    /\ ByteAt(program_executor.memory, program_executor.curr_addr) >= 14

\* C27: when has_finished is false and memory[curr_addr] >= 14, step()
\* returns InvalidInstruction with curr_addr and the opcode and changes no
\* register, memory byte, display port or curr_addr (the caller then sets
\* has_finished).
C27_FetchFault ==
    [][(Tick /\ AtFetchFault)
          => /\ output'.tag = "Err"
             /\ output'.val =
                   InvalidInstruction(program_executor.curr_addr,
                                      ByteAt(program_executor.memory,
                                             program_executor.curr_addr))
             /\ program_executor' = [program_executor EXCEPT !.has_finished = TRUE]
             /\ panic' = "none"]_vars

\* the byte 255 at address 4095 was fetched and refused
C27_Witness ==
    /\ ticks = 1
    /\ output.tag = "Err"
    /\ output.val = InvalidInstruction(4095, 255)
    /\ program_executor.curr_addr = 4095
    /\ program_executor.has_finished
    /\ error_popup_info = PopupRuntimeError(InvalidInstruction(4095, 255))

\* the register a nibble of 0..14 names
NibbleRegister(nibble) == nibble % 5

\* the running executor is at a jmp whose operand can be read
AtJmp ==
    /\ pending > 0
    /\ ~program_executor.has_finished
    /\ program_executor.curr_addr + 1 < MAX_PROGRAM_SIZE
    /\ ByteAt(program_executor.memory, program_executor.curr_addr) = 10
    /\ FirstNibble = 15 => program_executor.curr_addr + 3 < MAX_PROGRAM_SIZE
    /\ FirstNibble \in 5..14 =>
          program_executor.registers[NibbleRegister(FirstNibble)] + 1 < MAX_PROGRAM_SIZE

\* the value the operand of the jmp holds
JmpTarget ==
    LET reg == program_executor.registers[NibbleRegister(FirstNibble)]
    IN  IF FirstNibble = 15
        THEN from_be_bytes(ByteAt(program_executor.memory, program_executor.curr_addr + 2),
                           ByteAt(program_executor.memory, program_executor.curr_addr + 3))
        ELSE IF FirstNibble \in 0..4 THEN reg
        ELSE from_be_bytes(ByteAt(program_executor.memory, reg),
                           ByteAt(program_executor.memory, reg + 1))

\* C28: jmp assigns the target: when the value t read from its operand is
\* below 4096, curr_addr is t after the step, with no further advance (odd
\* targets too); when t >= 4096 the step fails with InvalidAddress and
\* curr_addr keeps the address of the jmp.
C28_JmpAssigns ==
    [][(Tick /\ AtJmp)
          => IF JmpTarget < MAX_PROGRAM_SIZE
             THEN /\ output'.tag = "Ok"
                  /\ program_executor'.curr_addr = JmpTarget
                  /\ ~program_executor'.has_finished
             ELSE /\ output'.tag = "Err"
                  /\ output'.val = InvalidAddress(program_executor.curr_addr, JmpTarget)
                  /\ program_executor'.curr_addr = program_executor.curr_addr]_vars

\* jmp r0 at address 4092 with r0 = 3 was executed
C28_Witness ==
    /\ ticks = 1
    /\ output.tag = "Ok"
    /\ program_executor.memory = SetByte(ZeroBytes, 4092, 10)
    /\ program_executor.registers[0] = 3
    /\ program_executor.curr_addr = 3

\* the slot of the instruction at curr_addr decodes to a Number
DecodesNumber(slot, nibble) ==
    LET mask == INSTRUCTION_SET[ByteAt(program_executor.memory,
                                       program_executor.curr_addr) + 1]
                    .accepted_operands[slot]
    IN  mask # 0 /\ Precedence(mask, nibble, 0) = <<Number(0)>>

\* the running executor is at an instruction of the table other than jmp
\* and stop
AtAdvancing ==
    /\ pending > 0
    /\ ~program_executor.has_finished
    /\ ByteAt(program_executor.memory, program_executor.curr_addr) \in (0..12) \ {10}

\* C29: every successfully executed instruction other than jmp and stop sets
\* curr_addr to (curr_addr + size) mod 4096, with size 4 when one of its
\* decoded operands is a Number and 2 otherwise; nop at 4094 leaves
\* curr_addr = 0.
C29_Advance ==
    [][(Tick /\ AtAdvancing /\ output'.tag = "Ok")
          => program_executor'.curr_addr =
                (program_executor.curr_addr
                 + (IF DecodesNumber(1, FirstNibble) \/ DecodesNumber(2, SecondNibble)
                    THEN 4 ELSE 2)) % MAX_PROGRAM_SIZE]_vars

\* mov r0, 1 at address 4092 was executed: curr_addr wrapped to 0
C29_Witness ==
    /\ ticks = 1
    /\ output.tag = "Ok"
    /\ program_executor.memory =
          SetByte(SetByte(SetByte(ZeroBytes, 4092, 1), 4093, 15), 4095, 1)
    /\ program_executor.registers[0] = 1
    /\ program_executor.curr_addr = 0

\* the operands of a line as process_instruction splits them, trimmed
LineOperands(line) ==
    LET words == splitn2(preprocess_line(line), " ")
        operands == IF Len(words) = 2 THEN split(words[2], ",") ELSE <<>>
    IN  [i \in DOMAIN operands |-> trim(operands[i])]

IsLabelLine(line) == ends_with(preprocess_line(line), ":")

\* the size of the instruction of a line of an error-free text: 0 for a
\* label, blank or comment-only line, 4 with a number or an @name operand,
\* 2 otherwise
LineSize(line) ==
    IF IsLabelLine(line) \/ preprocess_line(line) = <<>> THEN 0
    ELSE IF \E i \in DOMAIN LineOperands(line) :
               /\ LineOperands(line)[i] # <<>>
               /\ \/ LineOperands(line)[i][1] = "@"
                  \/ wrapping_parse(LineOperands(line)[i]) # <<>>
    THEN 4 ELSE 2

\* the sum of the sizes of the instructions of the lines before line k
RECURSIVE LineAddress(_, _)
LineAddress(lines, k) ==
    IF k <= 1 THEN 0 ELSE LineAddress(lines, k - 1) + LineSize(lines[k - 1])

\* in the image of an error-free text every @name operand of an instruction
\* emitted at a has at a + 2, a + 3 the address of the label line of name
Resolved(program, text) ==
    LET lines == split(to_lowercase(text), "\n")
    IN  \A k \in DOMAIN lines : \A i \in DOMAIN LineOperands(lines[k]) :
            LET operand == LineOperands(lines[k])[i]
                a == LineAddress(lines, k)
            IN  (operand # <<>> /\ operand[1] = "@") =>
                   \E at \in DOMAIN lines :
                       /\ preprocess_line(lines[at]) = Tail(operand) \o <<":">>
                       /\ from_be_bytes(ByteAt(program, a + 2), ByteAt(program, a + 3))
                            = LineAddress(lines, at)

\* C30: in an error-free compile every @name reference, forward or
\* backward, in an instruction emitted at a has at program[a+2..a+4],
\* big-endian, the address of the label, which is the sum of the sizes of
\* the instructions emitted on the lines before the label line; the
\* back-patch of a mention changes no byte but the two at its address.
C30_LabelResolution ==
    [][/\ (cc.pc # "done" /\ cc'.pc = "done" /\ compiler'.errors = <<>>)
             => Resolved(compiler'.program, code)
       /\ (Patch /\ cc.i <= Len(compiler.label_mentions_in_program))
             => LET at == compiler.label_mentions_in_program[cc.i][3]
                IN  compiler'.program =
                       SetByte(SetByte(compiler.program,
                                       at, ByteAt(compiler'.program, at)),
                               at + 1, ByteAt(compiler'.program, at + 1))]_vars

\* the text of App::default() was compiled: the forward reference @b holds
\* 22 and the backward reference @a holds 8
C30_Witness ==
    /\ code = SrcDefault
    /\ frame = "buttons"
    /\ compiler.errors = <<>>
    /\ Len(compiler.label_mentions_in_program) = 2
    /\ ByteAt(compiler.program, 6) = 0
    /\ ByteAt(compiler.program, 7) = 22
    /\ ByteAt(compiler.program, 18) = 0
    /\ ByteAt(compiler.program, 19) = 8

\* the first loop of compile_code is at a line
AtLabelPassLine == cc.pc = "labels" /\ cc.i <= Len(cc.lines)

\* the errors the first loop has added for the line it was at
AddedByLabelPass ==
    [i \in 1..(Len(cc'.errors) - Len(cc.errors)) |->
        cc'.errors[Len(cc.errors) + i].error]

\* C31: in the label validation pass a preprocessed line that ends in ':'
\* gets exactly one InvalidLabelName when its prefix does not match \w+,
\* exactly one LabelAlreadyExists when the valid prefix was seen on an
\* earlier line, and no error at the first occurrence of a valid name; a
\* line that does not end in ':' gets none.
C31_LabelValidation ==
    [][(LabelPass /\ AtLabelPassLine)
          => LET line == preprocess_line(cc.lines[cc.i])
                 name == SubSeq(line, 1, Len(line) - 1)
                 valid == name # <<>> /\ \A k \in DOMAIN name : name[k] \in WordChars
                 seen == \E j \in 1..(cc.i - 1) : preprocess_line(cc.lines[j]) = line
             IN  /\ SubSeq(cc'.errors, 1, Len(cc.errors)) = cc.errors
                 /\ AddedByLabelPass =
                       IF ~ends_with(line, ":") THEN <<>>
                       ELSE IF ~valid THEN <<InvalidLabelName(cc.i - 1, name)>>
                       ELSE IF seen THEN <<LabelAlreadyExists(cc.i - 1, name)>>
                       ELSE <<>>]_vars

\* the first loop has gone through SrcLabels
C31_Witness ==
    /\ code = SrcLabels
    /\ cc.pc = "emit"
    /\ cc.i = 1
    /\ [i \in DOMAIN cc.errors |-> <<cc.errors[i].error.kind, cc.errors[i].error.line>>]
          = << <<"LabelAlreadyExists", 1>>, <<"InvalidLabelName", 2>>,
               <<"InvalidLabelName", 3>>, <<"LabelAlreadyExists", 4>> >>

\* the operand syntaxes
RegisterNames == {<<"r", "0">>, <<"r", "1">>, <<"r", "2">>, <<"r", "3">>, <<"s", "p">>}

PortNames ==
    {<<"p", d>> : d \in DecDigits} \cup {<<"p", "1", d>> : d \in {"0", "1", "2", "3", "4", "5"}}

\* the mask bit of the kind an operand text denotes, 0 when it matches no
\* syntax
SyntaxMask(operand) ==
    IF operand \in RegisterNames THEN REG_MASK
    ELSE IF \E r \in RegisterNames : operand = <<"(">> \o r \o <<")">> THEN ADDR_MASK
    ELSE IF \E r \in RegisterNames : operand = <<"(">> \o r \o <<")", "+">>
    THEN ADDR_INC_MASK
    ELSE IF operand \in PortNames THEN PORT_MASK
    ELSE IF wrapping_parse(operand) # <<>> THEN NUMBER_MASK
    ELSE IF /\ Len(operand) >= 2
            /\ operand[1] = "@"
            /\ \A k \in 2..Len(operand) : operand[k] \in WordChars
    THEN NUMBER_MASK
    ELSE 0

\* the first index of 1..n with the property, 0 when there is none
FirstWhere(n, P(_)) ==
    IF \E i \in 1..n : P(i) THEN CHOOSE i \in 1..n : P(i) /\ \A j \in 1..(i - 1) : ~P(j)
    ELSE 0

\* the error kind, and what tells the operand it is about, that the order
\* UnknownInstruction, WrongNumberOfOperands, InvalidOperand,
\* WrongOperandType gives a line; <<>> when it gives none
Diagnosis(line) ==
    LET words == splitn2(line, " ")
        name == words[1]
        pieces == IF Len(words) = 2 THEN split(words[2], ",") ELSE <<>>
        operands == [i \in DOMAIN pieces |-> trim(pieces[i])]
        known == {i \in 1..Len(INSTRUCTION_SET) : INSTRUCTION_SET[i].name = name}
        accepted == INSTRUCTION_SET[CHOOSE i \in known : TRUE].accepted_operands
        unmatched == FirstWhere(Len(operands), LAMBDA i : SyntaxMask(operands[i]) = 0)
        mistyped == FirstWhere(Len(operands),
                               LAMBDA i : ~Accepts(accepted[i], SyntaxMask(operands[i])))
    IN  IF known = {} THEN <<"UnknownInstruction", name>>
        ELSE IF Len(operands) # AcceptedCount(accepted)
        THEN <<"WrongNumberOfOperands", <<AcceptedCount(accepted), Len(operands)>> >>
        ELSE IF unmatched # 0 THEN <<"InvalidOperand", operands[unmatched]>>
        ELSE IF mistyped # 0
        THEN <<"WrongOperandType", get_expected_operand_types_string(accepted[mistyped])>>
        ELSE <<>>

\* the kind of an error and what tells the operand it is about
Diagnosed(e) ==
    CASE e.kind = "UnknownInstruction" -> <<e.kind, e.instruction>>
      [] e.kind = "WrongNumberOfOperands" -> <<e.kind, <<e.expected, e.found>> >>
      [] e.kind = "InvalidOperand" -> <<e.kind, e.operand>>
      [] e.kind = "WrongOperandType" -> <<e.kind, e.expected>>
      [] OTHER -> <<e.kind>>

\* the second loop of compile_code is at a line that is neither a label nor
\* empty
AtInstructionLine ==
    /\ cc.pc = "emit"
    /\ cc.i <= Len(cc.lines)
    /\ ~IsLabelLine(cc.lines[cc.i])
    /\ splitn2(preprocess_line(cc.lines[cc.i]), " ")[1] # <<>>

\* C32: a line that is neither a label nor empty gets at most one error of
\* the second pass, chosen in the order UnknownInstruction,
\* WrongNumberOfOperands (expected the accepted count, found the number of
\* comma-separated operands), InvalidOperand for the first operand that
\* matches no syntax, WrongOperandType for the first operand whose kind the
\* slot does not accept; a line with such an error emits no byte and does
\* not advance the address.
C32_Diagnostics ==
    [][(Emit /\ AtInstructionLine /\ panic' = "none")
          => LET expected == Diagnosis(preprocess_line(cc.lines[cc.i]))
             IN  IF expected = <<>> THEN cc'.errors = cc.errors
                 ELSE /\ Len(cc'.errors) = Len(cc.errors) + 1
                      /\ SubSeq(cc'.errors, 1, Len(cc.errors)) = cc.errors
                      /\ Last(cc'.errors).error.line = cc.i - 1
                      /\ Diagnosed(Last(cc'.errors).error) = expected
                      /\ compiler'.program = compiler.program
                      /\ Last(compiler'.line_addresses) = Last(compiler.line_addresses)]_vars

\* the second loop has gone through SrcDiagnostics
C32_Witness ==
    /\ code = SrcDiagnostics
    /\ cc.pc = "patch"
    /\ [i \in DOMAIN cc.errors |-> <<cc.errors[i].error.kind, cc.errors[i].error.line>>]
          = << <<"InvalidLabelName", 10>>, <<"InvalidOperand", 0>>, <<"InvalidOperand", 1>>,
               <<"WrongNumberOfOperands", 2>>, <<"WrongOperandType", 3>>,
               <<"WrongOperandType", 4>>, <<"UnknownInstruction", 6>> >>
    /\ compiler.line_addresses = <<0, 0, 0, 0, 0, 0, 4, 4, 6, 10, 14, 14>>

\* the pass of compile_code that pushes an error of the kind
ErrorPass(kind) ==
    CASE kind \in {"LabelAlreadyExists", "InvalidLabelName"} -> 1
      [] kind = "NoLabelWithSuchName" -> 3
      [] OTHER -> 2

\* C33: the error list of compile_code has the errors of the label
\* validation first, in the order of the source lines, then the errors of the
\* second pass in the order of the source lines, then the
\* NoLabelWithSuchName errors in the order in which the second pass found
\* their mentions.
C33_ErrorOrdering ==
    (cc.pc = "done") =>
        LET errors == [i \in DOMAIN compiler.errors |-> compiler.errors[i].error]
            unresolved == SelectSeq(compiler.label_mentions_in_program,
                                    LAMBDA m : m[1] \notin DefinedLabels(code))
        IN  /\ \A i, j \in DOMAIN errors :
                   i < j => /\ ErrorPass(errors[i].kind) <= ErrorPass(errors[j].kind)
                            /\ (ErrorPass(errors[i].kind) = ErrorPass(errors[j].kind)
                                   /\ ErrorPass(errors[i].kind) # 3)
                                  => errors[i].line < errors[j].line
            /\ SelectSeq(errors, LAMBDA e : ErrorPass(e.kind) = 3)
                  = [i \in DOMAIN unresolved |->
                        NoLabelWithSuchName(unresolved[i][2], unresolved[i][1])]

\* compile_code has returned for SrcDiagnostics: the error of the last line
\* is first, the errors of @z and @y are last
C33_Witness ==
    /\ code = SrcDiagnostics
    /\ cc.pc = "done"
    /\ [i \in DOMAIN compiler.errors |->
           <<compiler.errors[i].error.kind, compiler.errors[i].error.line>>]
          = << <<"InvalidLabelName", 10>>, <<"InvalidOperand", 0>>, <<"InvalidOperand", 1>>,
               <<"WrongNumberOfOperands", 2>>, <<"WrongOperandType", 3>>,
               <<"WrongOperandType", 4>>, <<"UnknownInstruction", 6>>,
               <<"NoLabelWithSuchName", 8>>, <<"NoLabelWithSuchName", 9>> >>
    /\ compiler.errors[8].error.name = <<"z">>

\* C34: while the executor is in debug mode and has not finished, a click
\* on Step over executes exactly one instruction, whatever ticks_per_second
\* and the time since the last tick are.
C34_StepExecutesOne ==
    [][(/\ ClickStepOver
        /\ program_executor.is_in_debug_mode
        /\ ~program_executor.has_finished)
          => pending' = 1]_vars

\* no line of the text is a jmp
NoJmp(text) ==
    \A line \in {split(to_lowercase(text), "\n")[i] :
                    i \in DOMAIN split(to_lowercase(text), "\n")} :
        splitn2(preprocess_line(line), " ")[1] # <<"j", "m", "p">>

\* the lines whose instruction the assembler emitted at the address
EmittedAt(addr) ==
    {k \in 1..(Len(compiler.line_addresses) - 1) :
        /\ compiler.line_addresses[k] = addr
        /\ compiler.line_addresses[k + 1] > addr}

\* the running executor, loaded from an error-free text without jmp, is at
\* the address of an emitted instruction and executes it
AtEmitted ==
    /\ pending > 0
    /\ ~program_executor.has_finished
    /\ compiler.errors = <<>>
    /\ NoJmp(code)
    /\ EmittedAt(program_executor.curr_addr) # {}

\* the opcode and the operands byte at curr_addr are the emitted ones
AsEmitted ==
    \A a \in {program_executor.curr_addr, program_executor.curr_addr + 1} :
        ByteAt(program_executor.memory, a) = ByteAt(compiler.program, a)

C36_FaultIsAtomic ==
    [][(Tick /\ ~program_executor.has_finished /\ output'.tag = "Err")
          => program_executor' = [program_executor EXCEPT !.has_finished = TRUE]]_vars

\* C37: no instruction changes program_state_reg: it is 0 in every reachable
\* state, also after an add, sub or mul whose result wrapped modulo 2^16;
\* only Clear registers assigns it, and assigns 0.
C37_StateRegZero == program_executor.program_state_reg = 0

\* add r0, 1 was executed with r0 = 65535: r0 wrapped to 0
C37_Witness ==
    /\ ticks = 1
    /\ output.tag = "Ok"
    /\ program_executor.memory = SetByte(SetByte(SetByte(ZeroBytes, 0, 2), 1, 15), 3, 1)
    /\ program_executor.registers[0] = 0
    /\ program_executor.curr_addr = 4
    /\ program_executor.program_state_reg = 0

====
